---- MODULE Spec2Model ----
(***************************************************************************)
(* A model of cocofest's initial value problem builder (IvpFes), of the    *)
(* pulse-duration muscle model (DingModelPulseDurationFrequency) and of    *)
(* the pulse-intensity model with fatigue.                                 *)
(*                                                                         *)
(* Numbers.  Python floats are modelled as fixed-point integers; the unit  *)
(* depends on the quantity:                                                *)
(*   stimulation times        microseconds   (0.005 s  = 5000)             *)
(*   pulse durations          nanoseconds    (0.0003 s = 300000)           *)
(*   pulse intensities        1/100 mA       (50 mA    = 5000)             *)
(*   final_time               1/100 s        (1.25 s   = 125)              *)
(* Binary rounding of floats is outside the model: a product such as       *)
(* final_time * frequency is the exact decimal product.                    *)
(***************************************************************************)
EXTENDS Integers, Sequences, FiniteSets, TLC

(***************************************************************************)
(* Bounds of the model.                                                    *)
(***************************************************************************)
MaxStim == 3
MaxPulseList == 3

(***************************************************************************)
(* Program constants.                                                      *)
(***************************************************************************)
\* ding2007.py:56  self.pd0 = 0.000131405 (s), here in nanoseconds
Pd0 == 131405
\* ivp_fes.py:295/302  doublet_step = 0.005 (s), here in microseconds
DoubletStep == 5000
\* ivp_fes.py:303  triplet_step = 0.01 (s), here in microseconds
TripletStep == 10000
\* round(x, 3): one unit of the third decimal of a second, in microseconds
Milli == 1000
\* ivp_fes.py:411  a float final_time, and its product with the frequency,
\* is held in 1/100
Centi == 100
\* ivp_fes.py:257/262  the number model.min_pulse_intensity() returns, in
\* 1/100 mA.  The method is defined in models/hmed2018.py; the check only
\* compares against its result, for which this value stands.
MinPulseIntensity == 1873

(***************************************************************************)
(* Python values.  ty is the Python type, num the number held by an int,   *)
(* float or bool, str the text of a str (or the class of a model object),  *)
(* lst the elements of a list of numbers.                                  *)
(***************************************************************************)
PyVal(ty, num, str, lst) == [ty |-> ty, num |-> num, str |-> str, lst |-> lst]
PyNone == PyVal("NoneType", 0, "", <<>>)
PyInt(n) == PyVal("int", n, "", <<>>)
PyFloat(n) == PyVal("float", n, "", <<>>)
PyBool(b) == PyVal("bool", IF b THEN 1 ELSE 0, "", <<>>)
PyStr(s) == PyVal("str", 0, s, <<>>)
PyList(l) == PyVal("list", 0, "", l)
\* an instance of a FesModel subclass; str names the model family
PyModel(family) == PyVal("model", 0, family, <<>>)
\* the class object FesModel itself (the default of fes_parameters["model"])
PyFesModelClass == PyVal("type", 0, "FesModel", <<>>)

\* isinstance(v, int): bool is a subclass of int
IsInstanceInt(v) == v.ty \in {"int", "bool"}
\* isinstance(v, int | float)
IsInstanceIntFloat(v) == v.ty \in {"int", "bool", "float"}
\* isinstance(v, int | float | list)
IsInstanceIntFloatList(v) == v.ty \in {"int", "bool", "float", "list"}
IsInstanceBool(v) == v.ty = "bool"
IsInstanceStr(v) == v.ty = "str"
IsInstanceList(v) == v.ty = "list"
\* isinstance(v, FesModel)
IsInstanceFesModel(v) == v.ty = "model"
\* isinstance(v, DingModelPulseDurationFrequency | ...WithFatigue)
IsPulseDurationModel(v) == v.ty = "model" /\ v.str \in {"ding2007", "ding2007_with_fatigue"}
\* isinstance(v, DingModelIntensityFrequency | ...WithFatigue)
IsPulseIntensityModel(v) == v.ty = "model" /\ v.str \in {"hmed2018", "hmed2018_with_fatigue"}

(***************************************************************************)
(* Exceptions.                                                             *)
(***************************************************************************)
NoExc == [type |-> "none", msg |-> ""]
Exc(type, msg) == [type |-> type, msg |-> msg]
ValueError(msg) == Exc("ValueError", msg)
TypeError(msg) == Exc("TypeError", msg)
KeyError(key) == Exc("KeyError", key)

(***************************************************************************)
(* Sequences helpers.                                                      *)
(***************************************************************************)
Range(s) == {s[i] : i \in DOMAIN s}

\* list * n
Repeat(l, n) == [i \in 1..(Len(l) * n) |-> l[((i - 1) % Len(l)) + 1]]

\* Insert x in the non-decreasing sequence s, after the elements <= x.
InsertSorted(s, x) ==
    LET k == Cardinality({i \in DOMAIN s : s[i] <= x})
    IN  [i \in 1..(Len(s) + 1) |->
            IF i <= k THEN s[i] ELSE IF i = k + 1 THEN x ELSE s[i - 1]]

\* a variant that leaves the list in the order it was built
ListSortNone(s) == s

RECURSIVE ListSort(_)
\* list.sort(): the same elements with multiplicity, in non-decreasing order
ListSort(s) ==
    IF s = <<>> THEN <<>>
    ELSE InsertSorted(ListSort(SubSeq(s, 1, Len(s) - 1)), s[Len(s)])

IsSorted(s) == \A i \in 1..(Len(s) - 1) : s[i] <= s[i + 1]
IsStrictlyAscending(s) == \A i \in 1..(Len(s) - 1) : s[i] < s[i + 1]

\* The number of occurrences of x in s.
Count(s, x) == Cardinality({i \in DOMAIN s : s[i] = x})

(***************************************************************************)
(* Dictionaries.  A Python dict is a function from the keys it holds to    *)
(* their values; a key that is not in DOMAIN d raises KeyError when read.  *)
(***************************************************************************)
HasKey(d, k) == k \in DOMAIN d

\* d[k] = v
DictSet(d, k, v) == [x \in DOMAIN d \cup {k} |-> IF x = k THEN v ELSE d[x]]

\* for key in default: if key not in d: d[key] = default[key]
FillDefaults(d, default) ==
    [k \in DOMAIN d \cup DOMAIN default |-> IF k \in DOMAIN d THEN d[k] ELSE default[k]]

\* IvpFes._fill_fes_dict: default_fes_dict
default_fes_dict ==
    [model |-> PyFesModelClass,
     n_stim |-> PyInt(1),
     pulse_duration |-> PyFloat(300000),
     pulse_intensity |-> PyInt(5000),
     pulse_mode |-> PyStr("single")]

\* IvpFes._fill_ivp_dict: default_ivp_dict
default_ivp_dict ==
    [n_shooting |-> PyNone,
     final_time |-> PyNone,
     extend_last_phase_time |-> PyBool(FALSE),
     ode_solver |-> PyVal("OdeSolver", 0, "RK4", <<>>),
     use_sx |-> PyBool(TRUE),
     n_threads |-> PyInt(1)]

fill_fes_dict(fes) == FillDefaults(fes, default_fes_dict)
fill_ivp_dict(ivp) == FillDefaults(ivp, default_ivp_dict)

(***************************************************************************)
(* IvpFes.dictionaries_check.  Each block returns the exception it raises  *)
(* (NoExc when it passes) and the checks it evaluated, in order.           *)
(***************************************************************************)
Passed(evaluated) == [raised |-> NoExc, evaluated |-> evaluated]
Raised(exc, evaluated) == [raised |-> exc, evaluated |-> evaluated]

\* Run block b after result r, unless r already raised.
AndThen(r, b) ==
    IF r.raised # NoExc THEN r
    ELSE [raised |-> b.raised, evaluated |-> r.evaluated \o b.evaluated]

\* lines 199-203
check_model_and_n_stim(fes) ==
    IF ~IsInstanceFesModel(fes["model"])
    THEN Raised(ValueError("model must be a FesModel type"), <<"model">>)
    ELSE IF ~IsInstanceInt(fes["n_stim"])
    THEN Raised(ValueError("n_stim must be an int type"), <<"model", "n_stim">>)
    ELSE Passed(<<"model", "n_stim">>)

\* a variant that does not set bool apart from int
pulse_format_bool_as_int(v) == IsInstanceIntFloatList(v)

\* lines 208-217 / 240-249: the second assignment compares a bool with the
\* type `list`, which is never equal, so it keeps the first result.
pulse_format(v) ==
    IF ~IsInstanceBool(v) THEN IsInstanceIntFloatList(v) ELSE FALSE

\* a variant that also rejects a value equal to the minimum
min_pulse_check_strict(v, minimum) ==
    IF IsInstanceList(v)
    THEN \A i \in DOMAIN v.lst : v.lst[i] > minimum
    ELSE v.num > minimum

\* lines 223-232 / 254-263: all(x >= minimum) over a list, x >= minimum else
min_pulse_check(v, minimum) ==
    IF IsInstanceList(v)
    THEN \A i \in DOMAIN v.lst : v.lst[i] >= minimum
    ELSE v.num >= minimum

\* lines 205-235
check_pulse_duration(fes) ==
    IF ~IsPulseDurationModel(fes["model"]) THEN Passed(<<>>)
    ELSE IF pulse_format(fes["pulse_duration"]) = FALSE
    THEN Raised(TypeError("pulse_duration must be int, float or list type"),
                <<"pulse_duration_format">>)
    ELSE IF min_pulse_check(fes["pulse_duration"], Pd0) = FALSE
    THEN Raised(ValueError("Pulse duration must be greater than minimum pulse duration"),
                <<"pulse_duration_format", "min_pulse_duration_check">>)
    ELSE Passed(<<"pulse_duration_format", "min_pulse_duration_check">>)

\* lines 237-266
check_pulse_intensity(fes) ==
    IF ~IsPulseIntensityModel(fes["model"]) THEN Passed(<<>>)
    ELSE IF pulse_format(fes["pulse_intensity"]) = FALSE
    THEN Raised(TypeError("pulse_intensity must be int, float or list type"),
                <<"pulse_intensity_format">>)
    ELSE IF min_pulse_check(fes["pulse_intensity"], MinPulseIntensity) = FALSE
    THEN Raised(ValueError("Pulse intensity must be greater than minimum pulse intensity"),
                <<"pulse_intensity_format", "minimum_pulse_intensity">>)
    ELSE Passed(<<"pulse_intensity_format", "minimum_pulse_intensity">>)

\* lines 268-278
check_mode_and_times(fes, ivp) ==
    IF ~IsInstanceStr(fes["pulse_mode"])
    THEN Raised(ValueError("pulse_mode must be a string type"), <<"pulse_mode">>)
    ELSE IF ~(IsInstanceInt(ivp["n_shooting"]) \/ IsInstanceList(ivp["n_shooting"])
              \/ ivp["n_shooting"] = PyNone)
    THEN Raised(ValueError("n_shooting must be an int or a list type"),
                <<"pulse_mode", "n_shooting">>)
    ELSE IF ~IsInstanceIntFloat(ivp["final_time"])
    THEN Raised(ValueError("final_time must be an int or float type"),
                <<"pulse_mode", "n_shooting", "final_time">>)
    ELSE IF ~(IsInstanceIntFloat(ivp["extend_last_phase_time"])
              \/ ivp["extend_last_phase_time"] = PyNone)
    THEN Raised(ValueError("extend_last_phase_time must be an int or float type"),
                <<"pulse_mode", "n_shooting", "final_time", "extend_last_phase_time">>)
    ELSE Passed(<<"pulse_mode", "n_shooting", "final_time", "extend_last_phase_time">>)

\* a variant that tests n_threads before use_sx and ode_solver
check_solver_threads_first(ivp) ==
    IF ~IsInstanceInt(ivp["n_threads"])
    THEN Raised(ValueError("n_thread must be a int type"), <<"n_threads">>)
    ELSE IF ~IsInstanceBool(ivp["use_sx"])
    THEN Raised(ValueError("use_sx must be a bool type"), <<"n_threads", "use_sx">>)
    ELSE IF ivp["ode_solver"].ty # "OdeSolver"
    THEN Raised(ValueError("ode_solver must be a OdeSolver type"),
                <<"n_threads", "use_sx", "ode_solver">>)
    ELSE Passed(<<"n_threads", "use_sx", "ode_solver">>)

\* lines 280-289
check_solver(ivp) ==
    IF ivp["ode_solver"].ty # "OdeSolver"
    THEN Raised(ValueError("ode_solver must be a OdeSolver type"), <<"ode_solver">>)
    ELSE IF ~IsInstanceBool(ivp["use_sx"])
    THEN Raised(ValueError("use_sx must be a bool type"), <<"ode_solver", "use_sx">>)
    ELSE IF ~IsInstanceInt(ivp["n_threads"])
    THEN Raised(ValueError("n_thread must be a int type"),
                <<"ode_solver", "use_sx", "n_threads">>)
    ELSE Passed(<<"ode_solver", "use_sx", "n_threads">>)

dictionaries_check(fes, ivp) ==
    AndThen(AndThen(AndThen(AndThen(check_model_and_n_stim(fes),
                                    check_pulse_duration(fes)),
                            check_pulse_intensity(fes)),
                    check_mode_and_times(fes, ivp)),
            check_solver(ivp))

(***************************************************************************)
(* IvpFes._pulse_mode_settings.                                            *)
(***************************************************************************)
\* a variant that rounds to 2 decimals: the nearest multiple of 10 ms
Round2(x) ==
    LET q == x \div (10 * Milli)
        r == x % (10 * Milli)
    IN  IF 2 * r < 10 * Milli THEN q * 10 * Milli
        ELSE IF 2 * r > 10 * Milli THEN (q + 1) * 10 * Milli
        ELSE IF q % 2 = 0 THEN q * 10 * Milli ELSE (q + 1) * 10 * Milli

\* round(x, 3) of a time x >= 0 in microseconds: the nearest multiple of one
\* millisecond, a tie going to the even one.
Round3(x) ==
    LET q == x \div Milli
        r == x % Milli
    IN  IF 2 * r < Milli THEN q * Milli
        ELSE IF 2 * r > Milli THEN (q + 1) * Milli
        ELSE IF q % 2 = 0 THEN q * Milli ELSE (q + 1) * Milli

\* [round(stim_time + step, 3) for stim_time in self.stim_time]
ShiftedTimes(stim, step) == [i \in DOMAIN stim |-> Round3(stim[i] + step)]

ValidPulseModes == {"single", "doublet", "triplet"}

\* a variant that takes an unknown pulse mode for "single"
pulse_mode_settings_lenient(mode, stim, n) ==
    IF mode = "doublet"
    THEN LET new == ListSort(stim \o ShiftedTimes(stim, DoubletStep))
         IN  [raised |-> NoExc, stim_time |-> new, n_stim |-> Len(new)]
    ELSE IF mode = "triplet"
    THEN LET new == ListSort(stim \o ShiftedTimes(stim, DoubletStep)
                                  \o ShiftedTimes(stim, TripletStep))
         IN  [raised |-> NoExc, stim_time |-> new, n_stim |-> Len(new)]
    ELSE [raised |-> NoExc, stim_time |-> stim, n_stim |-> n]

\* The fields of self the method leaves: stim_time, n_stim, and what it raises.
pulse_mode_settings(mode, stim, n) ==
    IF mode = "single"
    THEN [raised |-> NoExc, stim_time |-> stim, n_stim |-> n]
    ELSE IF mode = "doublet"
    THEN LET new == ListSort(stim \o ShiftedTimes(stim, DoubletStep))
         IN  [raised |-> NoExc, stim_time |-> new, n_stim |-> Len(new)]
    ELSE IF mode = "triplet"
    THEN LET new == ListSort(stim \o ShiftedTimes(stim, DoubletStep)
                                  \o ShiftedTimes(stim, TripletStep))
         IN  [raised |-> NoExc, stim_time |-> new, n_stim |-> Len(new)]
    ELSE [raised |-> ValueError("Pulse mode not yet implemented"),
          stim_time |-> stim, n_stim |-> n]

(***************************************************************************)
(* IvpFes.__init__, lines 78-140: the parameter list and its sizes.        *)
(***************************************************************************)
\* parameters_init[name].shape[0]: [value] * n_stim for an int or a float,
\* np.array(value) for a list
InitShape(v, n) == IF IsInstanceIntFloat(v) THEN (IF n < 0 THEN 0 ELSE n) ELSE Len(v.lst)

\* lines 97-123 and 125-140
build_parameters(model, pulse_duration, pulse_intensity, n) ==
    IF IsPulseDurationModel(model) /\ InitShape(pulse_duration, n) # n
    THEN ValueError("pulse_duration list must have the same length as n_stim")
    ELSE IF IsPulseIntensityModel(model) /\ InitShape(pulse_intensity, n) # n
    THEN ValueError("pulse_intensity list must have the same length as n_stim")
    ELSE NoExc

(***************************************************************************)
(* The class methods of IvpFes.  Each returns the two dictionaries as it   *)
(* leaves them and the exception it raises before calling cls(...).        *)
(***************************************************************************)
\* a variant that rounds to the nearest integer, a half going up
IntOfNearest(x, unit) == (2 * x + unit) \div (2 * unit)

\* int(x) of the fixed-point number x / unit: truncation toward zero
IntOf(x, unit) == IF x >= 0 THEN x \div unit ELSE -((-x) \div unit)

ClassResult(exc, fes, ivp) == [raised |-> exc, fes |-> fes, ivp |-> ivp]

StimulationCountError ==
    ValueError("The number of stimulation needs to be integer within the final time t, set round down to True or set final_time * frequency to make the result an integer.")

\* final_time * frequency: an int when final_time is an int (or a bool), a
\* float (held in 1/100) when final_time is a float
StimProduct(final_time, frequency) ==
    IF final_time.ty = "float"
    THEN PyFloat(final_time.num * frequency.num)
    ELSE PyInt(final_time.num * frequency.num)

\* lines 401-423.  int_is_integer tells whether the interpreter's int has
\* the method is_integer (Python 3.12 on); without it the call raises
\* AttributeError.
from_frequency_and_final_time(fes, ivp, int_is_integer) ==
    IF ~HasKey(fes, "frequency") THEN ClassResult(KeyError("frequency"), fes, ivp)
    ELSE IF ~IsInstanceInt(fes["frequency"])
    THEN ClassResult(ValueError("Frequency must be an int"), fes, ivp)
    ELSE IF ~HasKey(fes, "round_down") THEN ClassResult(KeyError("round_down"), fes, ivp)
    ELSE IF ~IsInstanceBool(fes["round_down"])
    THEN ClassResult(ValueError("Round down must be a bool"), fes, ivp)
    ELSE IF ~HasKey(ivp, "final_time") THEN ClassResult(KeyError("final_time"), fes, ivp)
    ELSE IF ~IsInstanceIntFloat(ivp["final_time"])
    THEN ClassResult(ValueError("Final time must be an int or float"), fes, ivp)
    ELSE
      LET product == StimProduct(ivp["final_time"], fes["frequency"])
          fes1 == DictSet(fes, "n_stim", product)
          round_down == fes["round_down"].num = 1
      IN  IF round_down
          THEN ClassResult(NoExc,
                   DictSet(fes1, "n_stim",
                       PyInt(IF product.ty = "float" THEN IntOf(product.num, Centi)
                             ELSE product.num)),
                   ivp)
          ELSE IF product.ty = "int" /\ ~int_is_integer
          THEN ClassResult(Exc("AttributeError", "'int' object has no attribute 'is_integer'"),
                           fes1, ivp)
          ELSE IF product.ty = "int"
          THEN ClassResult(NoExc, fes1, ivp)
          ELSE IF product.num % Centi = 0
          THEN ClassResult(NoExc, DictSet(fes1, "n_stim", PyInt(IntOf(product.num, Centi))), ivp)
          ELSE ClassResult(StimulationCountError, fes1, ivp)

\* lines 445-456.  n_stim / frequency is a float, held in 1/100 (the digits
\* beyond are cut).
from_frequency_and_n_stim(fes, ivp) ==
    IF ~HasKey(fes, "n_stim") THEN ClassResult(KeyError("n_stim"), fes, ivp)
    ELSE IF ~IsInstanceInt(fes["n_stim"])
    THEN ClassResult(ValueError("n_stim must be an int"), fes, ivp)
    ELSE IF ~HasKey(fes, "frequency") THEN ClassResult(KeyError("frequency"), fes, ivp)
    ELSE IF ~IsInstanceInt(fes["frequency"])
    THEN ClassResult(ValueError("Frequency must be an int"), fes, ivp)
    ELSE IF fes["frequency"].num = 0
    THEN ClassResult(Exc("ZeroDivisionError", "division by zero"), fes, ivp)
    ELSE ClassResult(NoExc, fes,
             DictSet(ivp, "final_time",
                 PyFloat((fes["n_stim"].num * Centi) \div fes["frequency"].num)))

(***************************************************************************)
(* The muscle models.  A value the source computes with exp, or with a     *)
(* function of ding2003.py / hmed2018_integrate.py, is kept as the term    *)
(* [fn, args]: the function applied and its arguments, in call order.      *)
(***************************************************************************)
Term(fn, args) == [fn |-> fn, args |-> args]

\* ding2007.py:55  self.a_scale = 4920
AScale == 4920
\* ding2007.py:57  self.pdt = 0.000194138 (s), here in nanoseconds
Pdt == 194138
\* ding2007.py:58  self.tau1_rest = 0.060601 (s), here in microseconds
Tau1Rest == 60601
\* ding2007.py:60  self.km_rest = 0.137, here in 1/1000
KmRest == 137
\* ding2007.py:61  self.tauc = 0.011 (s), here in microseconds
Tauc == 11000
\* ding2007.py:59  self.tau2 = 0.001 (s), here in microseconds
Tau2 == 1000
\* self.a_rest, which the parent class of the model sets; this value stands
\* for it
ARest == 3009

\* a Python exception raised while a model function runs
DynError(type) == Term(type, <<>>)
IsDynError(x) == x.fn \in {"IndexError", "TypeError"}

\* a variant in which a pulse is active only strictly after its apparition
RECURSIVE SelectedImpulseTimeStrict(_, _, _, _)
SelectedImpulseTimeStrict(impulse_time_list, t, t_stim_prev, i) ==
    IF i = 1 THEN impulse_time_list[1]
    ELSE LET previous == SelectedImpulseTimeStrict(impulse_time_list, t, t_stim_prev, i - 1)
             coefficient == IF t_stim_prev[i] < t THEN 1 ELSE 0
             temp_impulse_time == impulse_time_list[i] * coefficient
         IN  IF temp_impulse_time # 0 THEN temp_impulse_time ELSE previous

\* a variant in which an active pulse is selected whatever its duration
RECURSIVE SelectedImpulseTimeActive(_, _, _, _)
SelectedImpulseTimeActive(impulse_time_list, t, t_stim_prev, i) ==
    IF i = 1 THEN impulse_time_list[1]
    ELSE LET previous == SelectedImpulseTimeActive(impulse_time_list, t, t_stim_prev, i - 1)
         IN  IF t_stim_prev[i] <= t THEN impulse_time_list[i] ELSE previous

\* ding2007.py:166-173, the loop of a_calculation up to index i (1-based
\* here): the value of impulse_time after the iteration for pulse i
RECURSIVE SelectedImpulseTime(_, _, _, _)
SelectedImpulseTime(impulse_time_list, t, t_stim_prev, i) ==
    IF i = 1 THEN impulse_time_list[1]
    ELSE LET previous == SelectedImpulseTime(impulse_time_list, t, t_stim_prev, i - 1)
             coefficient == IF t_stim_prev[i] <= t THEN 1 ELSE 0
             temp_impulse_time == impulse_time_list[i] * coefficient
         IN  IF temp_impulse_time # 0 THEN temp_impulse_time ELSE previous

\* ding2007.py:174
AFormula(self, a_scale, impulse_time) ==
    Term("a_scale*(1-exp(-(impulse_time-pd0)/pdt))", <<a_scale, impulse_time, self.pd0, self.pdt>>)

\* DingModelPulseDurationFrequency.a_calculation: reading a pulse the list
\* does not hold raises IndexError; with no stimulation the loop does not
\* run and impulse_time is still the list, which exp rejects
a_calculation(self, a_scale, impulse_time, t, t_stim_prev) ==
    IF Len(t_stim_prev) = 0 THEN DynError("TypeError")
    ELSE IF Len(impulse_time) < Len(t_stim_prev) THEN DynError("IndexError")
    ELSE AFormula(self, a_scale, SelectedImpulseTime(impulse_time, t, t_stim_prev, Len(t_stim_prev)))

\* ding2007.py:135  r0 = self.km_rest + self.r0_km_relationship
R0(km) == Term("km+r0_km_relationship", <<km>>)

\* DingModelPulseDurationFrequency.system_dynamics: vertcat(cn_dot, f_dot)
ding2007_system_dynamics(self, cn, f, t, t_stim_prev, impulse_time) ==
    LET cn_dot == Term("cn_dot_fun", <<cn, R0(self.km_rest), t, t_stim_prev>>)
        a == a_calculation(self, self.a_scale, impulse_time, t, t_stim_prev)
        f_dot == Term("f_dot_fun", <<cn, f, a, self.tau1_rest, self.km_rest, 1, 1>>)
    IN  IF IsDynError(a) THEN [raised |-> a.fn, dxdt |-> <<>>]
        ELSE [raised |-> "none", dxdt |-> <<cn_dot, f_dot>>]

\* a variant that passes the list on as it is
BroadcastNone(pulse_parameters, stim_apparition) == pulse_parameters

\* ding2007.py:279-280 / hmed2018_with_fatigue_integrate.py:254-255
Broadcast(pulse_parameters, stim_apparition) ==
    IF Len(pulse_parameters) = 1 /\ Len(stim_apparition) # 1
    THEN Repeat(pulse_parameters, Len(stim_apparition))
    ELSE pulse_parameters

\* DingModelPulseDurationFrequency.dynamics, with impulse_time the list
\* get_pulse_duration_parameters returns, stim_prev given and self the
\* model the dynamics is taken from (fes_model, or nlp.model)
ding2007_dynamics(self, time, states, impulse_time, stim_prev) ==
    ding2007_system_dynamics(self, states[1], states[2], time, stim_prev,
                             Broadcast(impulse_time, stim_prev))

\* An exact value of the fatigue equations: the fraction num / den, den > 0.
Rat(num, den) == [num |-> num, den |-> den]
RatAdd(x, y) == Rat(x.num * y.den + y.num * x.den, x.den * y.den)
RatMul(x, y) == Rat(x.num * y.num, x.den * y.den)
RatMax(x, y) == IF x.num * y.den >= y.num * x.den THEN x ELSE y

\* hmed2018_with_fatigue_integrate.py:44  self.tau_fat = 127 (s)
TauFat == 127
\* hmed2018_with_fatigue_integrate.py:42  self.alpha_a = -4.0 * 10e-7, that
\* is -4.0e-6
AlphaA == Rat(-4, 1000000)
\* hmed2018_with_fatigue_integrate.py:43  self.alpha_tau1 = 2.1 * 10e-5, that
\* is 2.1e-4 (s/N), here in microseconds
AlphaTau1 == Rat(210, 1)
\* hmed2018_with_fatigue_integrate.py:45  self.alpha_km = 1.9 * 10e-8, that
\* is 1.9e-7, here in 1/1000
AlphaKm == Rat(19, 100000)

\* a variant of the fatigue equation that never lets the value decrease
fatigue_dot_clamped(x, x_rest, alpha, f) ==
    RatMax(Rat(0, 1), RatAdd(Rat(-(x - x_rest), TauFat), RatMul(alpha, Rat(f, 1))))

\* hmed2018_with_fatigue_integrate.py:147, 162-164, 179: the expression the
\* three fatigue functions share, -(x - x_rest) / self.tau_fat + alpha * f
fatigue_dot(x, x_rest, alpha, f) ==
    RatAdd(Rat(-(x - x_rest), TauFat), RatMul(alpha, Rat(f, 1)))

\* a_dot_fun, tau1_dot_fun, km_dot_fun
a_dot_fun(self, a, f) == fatigue_dot(a, self.a_rest, AlphaA, f)
tau1_dot_fun(self, tau1, f) == fatigue_dot(tau1, self.tau1_rest, AlphaTau1, f)
km_dot_fun(self, km, f) == fatigue_dot(km, self.km_rest, AlphaKm, f)

\* a term together with the value the source computes for it
Valued(fn, args, value) == [fn |-> fn, args |-> args, value |-> value]

\* DingModelIntensityFrequencyWithFatigueIntegrate.system_dynamics
hmed2018_system_dynamics(self, cn, f, a, tau1, km, t, t_stim_prev, intensity_stim) ==
    LET cn_dot == Term("cn_dot_fun", <<cn, R0(km), t, t_stim_prev, intensity_stim>>)
        f_dot == Term("f_dot_fun", <<cn, f, a, tau1, km, 1, 1>>)
        a_dot == Valued("a_dot_fun", <<a, f>>, a_dot_fun(self, a, f))
        tau1_dot == Valued("tau1_dot_fun", <<tau1, f>>, tau1_dot_fun(self, tau1, f))
        km_dot == Valued("km_dot_fun", <<km, f>>, km_dot_fun(self, km, f))
    IN  [raised |-> "none", dxdt |-> <<cn_dot, f_dot, a_dot, tau1_dot, km_dot>>]

\* hmed2018_with_fatigue_integrate.py:48-59  name_dof.  It is a property, so
\* that with_muscle_name is False whenever it is read.
hmed2018_name_dof(muscle_name, with_muscle_name) ==
    LET suffix == IF muscle_name # "" /\ with_muscle_name THEN "_" \o muscle_name ELSE ""
    IN  <<"Cn" \o suffix, "F" \o suffix, "A" \o suffix, "Tau1" \o suffix, "Km" \o suffix>>

\* hmed2018_with_fatigue_integrate.py:63  nb_state
hmed2018_nb_state == 5

\* hmed2018_with_fatigue_integrate.py:65-71  standard_rest_values(): a column
\* of one-element rows, each held here as its element
hmed2018_standard_rest_values(self) ==
    <<0, 0, self.a_rest, self.tau1_rest, self.km_rest>>

\* a variant that reads the force before the calcium concentration
hmed2018_dynamics_force_first(self, time, states, intensity_parameters, stim_prev) ==
    hmed2018_system_dynamics(self, states[2], states[1], states[3], states[4], states[5],
                             time, stim_prev, Broadcast(intensity_parameters, stim_prev))

\* DingModelIntensityFrequencyWithFatigueIntegrate.dynamics
hmed2018_dynamics(self, time, states, intensity_parameters, stim_prev) ==
    hmed2018_system_dynamics(self, states[1], states[2], states[3], states[4], states[5],
                             time, stim_prev, Broadcast(intensity_parameters, stim_prev))

(***************************************************************************)
(* State.                                                                  *)
(***************************************************************************)
VARIABLES
    entry,            \* the entry point called: "__init__" or a class method
    int_is_integer,   \* whether the interpreter's int has is_integer()
    fes_arg,          \* fes_parameters as the caller passed it
    ivp_arg,          \* ivp_parameters as the caller passed it
    fes_parameters,   \* the caller's dict object, which the code writes into
    ivp_parameters,   \* the caller's dict object, which the code writes into
    pc,               \* the position in the entry point
    raised,           \* the exception that ended the call, NoExc if none
    steps,            \* the steps of the entry point executed so far, in order
    evaluated,        \* the checks of dictionaries_check evaluated, in order
    n_stim,           \* self.n_stim
    stim_time,        \* self.stim_time
    built,            \* the bioptim objects built so far
    call,             \* the model function called: a_calculation or a dynamics
    time,             \* its evaluation time t
    stim_prev,        \* its list of pulse apparition times
    pulse_parameters, \* its list of pulse durations or intensities
    states,           \* its state vector
    returned,         \* whether the call has returned
    a,                \* what a_calculation returned
    dxdt,             \* what dynamics returned
    model_attrs,      \* the attributes of the model object the call is made on
    history,          \* the calls made on the model so far, with what they returned
    x_init,           \* self.x_init: the state initial guesses, in order
    input_dict,       \* the arguments of OcpFes.prepare_ocp
    ocp_dicts,        \* pulse_event, pulse_duration, pulse_intensity, objective
    ocp_pc,           \* the position in OcpFes.prepare_ocp
    ocp_raised,       \* the exception that ended prepare_ocp, NoExc if none
    ocp_built,        \* the steps of prepare_ocp executed so far, in order
    ocp_evaluated,    \* the checks of _sanity_check evaluated, in order
    ocp_parameters,   \* the parameters _build_parameters added, in order
    constraints,      \* what _build_constraints added: cn_sum, a_calculation
    controller,       \* the PenaltyController a constraint function is given
    penalty,          \* what the constraint function did: raised, value
    msk_args,         \* the arguments FesMskModel is constructed with
    msk_pc,           \* the position in the life of the FesMskModel
    msk_raised,       \* the exception that ended it, NoExc if none
    muscle_calls,     \* the coefficients handed to each muscle's dynamics
    serialized,       \* what serialize() returned: the class and the kwargs
    rebuilt,          \* the attributes of the model cls(**kwargs) built
    nlp_parameters,   \* the parameters of the phase, in order
    muscle_arg,       \* the muscle_name get_pulse_duration_parameters is given
    pulse_duration_parameters   \* the list it returns, NotReturned before

ivpVars == <<entry, int_is_integer, fes_arg, ivp_arg, fes_parameters, ivp_parameters,
             pc, steps, raised, evaluated, n_stim, stim_time, built>>

dynVars == <<call, time, stim_prev, pulse_parameters, states, returned, a, dxdt,
             model_attrs, history>>

ocpVars == <<input_dict, ocp_dicts, ocp_pc, ocp_raised, ocp_built, ocp_evaluated,
             ocp_parameters, constraints>>

constraintVars == <<controller, penalty>>

mskVars == <<msk_args, msk_pc, msk_raised, muscle_calls>>

serializeVars == <<serialized, rebuilt>>

parameterVars == <<nlp_parameters, muscle_arg, pulse_duration_parameters>>

libVars == <<constraintVars, mskVars, serializeVars, parameterVars>>

vars == <<ivpVars, dynVars, x_init, ocpVars, libVars>>

\* what a function that has not been called has done
NotCalled == [fn |-> "none", raised |-> NoExc, value |-> 0]

\* no constraint function is being evaluated
NoConstraintCall ==
    /\ controller = [n_phases |-> 0]
    /\ penalty = NotCalled

\* no FesMskModel is being constructed
NoMskModel ==
    /\ msk_args = <<>>
    /\ msk_pc = "none"
    /\ msk_raised = NoExc
    /\ muscle_calls = <<>>

\* serialize() has not been called
NoSerialize ==
    /\ serialized = <<>>
    /\ rebuilt = <<>>

NotReturned == [returned |-> FALSE, list |-> <<>>]

\* get_pulse_duration_parameters is not being called
NoParameterCall ==
    /\ nlp_parameters = <<>>
    /\ muscle_arg = <<>>
    /\ pulse_duration_parameters = NotReturned

NoLibCall == NoConstraintCall /\ NoMskModel /\ NoSerialize /\ NoParameterCall

(***************************************************************************)
(* The calls the model explores.                                           *)
(***************************************************************************)
\* a key the caller does not supply
Absent == PyVal("absent", 0, "", <<>>)
EmptyDict == [k \in {} |-> PyNone]
WithKey(d, k, v) == IF v = Absent THEN d ELSE DictSet(d, k, v)

\* base stimulation times (microseconds): 0.6 ms exercises round(x, 3),
\* 0 / 5 ms / 10 ms / 11 ms lie one doublet or triplet step apart
TimeSet == {0, 600, 5000, 10000, 11000, 100000}
\* below pd0, pd0 itself, the default 0.0003 s
DurationSet == {10000, Pd0, 300000}
\* below the minimum, the minimum itself, 50 mA
IntensitySet == {10, MinPulseIntensity, 5000}

SeqsUpTo(S, n) == UNION {[1..k -> S] : k \in 1..n}
StimTimeLists == {s \in SeqsUpTo(TimeSet, MaxStim) : IsStrictlyAscending(s)}

PulseValues(S) ==
    {Absent, PyBool(TRUE), PyStr("0.0003"), PyNone, PyInt(0)}
        \cup {PyFloat(x) : x \in S}
        \cup {PyList(l) : l \in SeqsUpTo(S, MaxPulseList)}

PulseModes == {PyStr("single"), PyStr("doublet"), PyStr("triplet"),
               PyStr("Quadruplet"), PyInt(2)}

ValidIvp == [n_shooting |-> PyInt(100), final_time |-> PyFloat(30)]

FesDict(model, stim, n, duration, intensity, mode) ==
    WithKey(WithKey(WithKey(WithKey(WithKey(WithKey(EmptyDict,
        "model", model), "stim_time", stim), "n_stim", n),
        "pulse_duration", duration), "pulse_intensity", intensity), "pulse_mode", mode)

\* a regular 10 Hz train of n pulses: [0, 0.1, 0.2, ...]
RegularTrain(n) == [i \in 1..n |-> (i - 1) * 100000]

StimArgs == {Absent} \cup {PyList(l) : l \in StimTimeLists}
TrainArgs == {Absent} \cup {PyList(RegularTrain(k)) : k \in 1..MaxStim}
NStimArgs == {Absent, PyInt(3)}

\* pulse values paired with every base list of StimArgs
FewPulseValues(S) ==
    {Absent} \cup {PyList([i \in 1..k |-> x]) : k \in 2..MaxPulseList, x \in S \ {Pd0}}

(***************************************************************************)
(* OcpFes._fill_dict and OcpFes._sanity_check.                             *)
(***************************************************************************)
NotImplementedError(msg) == Exc("NotImplementedError", msg)

\* bool(v) of a Python value
Truthy(v) ==
    CASE v.ty = "NoneType" -> FALSE
      [] v.ty \in {"int", "float", "bool"} -> v.num # 0
      [] v.ty = "str" -> v.str # ""
      [] v.ty = "list" -> Len(v.lst) > 0
      [] OTHER -> TRUE

\* [x, y].count(None)
CountNone(x, y) == (IF x = PyNone THEN 1 ELSE 0) + (IF y = PyNone THEN 1 ELSE 0)

default_pulse_event ==
    [min |-> PyNone, max |-> PyNone, bimapping |-> PyBool(FALSE), frequency |-> PyNone,
     round_down |-> PyBool(FALSE), pulse_mode |-> PyStr("single")]

\* default_pulse_duration and default_pulse_intensity
default_pulse_value ==
    [fixed |-> PyNone, min |-> PyNone, max |-> PyNone, bimapping |-> PyBool(FALSE)]

default_objective ==
    [force_tracking |-> PyNone, end_node_tracking |-> PyNone, cycling |-> PyNone,
     custom |-> PyNone]

\* {} if d is None else d, then {**default, **d}
MergeDefaults(d, default) == FillDefaults(IF d = PyNone THEN EmptyDict ELSE d, default)

\* OcpFes._fill_dict
fill_dict(pulse_event, pulse_duration, pulse_intensity, objective) ==
    [pulse_event |-> MergeDefaults(pulse_event, default_pulse_event),
     pulse_duration |-> MergeDefaults(pulse_duration, default_pulse_value),
     pulse_intensity |-> MergeDefaults(pulse_intensity, default_pulse_value),
     objective |-> MergeDefaults(objective, default_objective)]

ModelTypeError ==
    TypeError("The current model type used is {type(model)}, it must be a FesModel type.")

\* fes_ocp.py:287-302
sanity_model_and_times(model, n_shooting, final_time) ==
    IF ~IsInstanceFesModel(model) /\ model.ty # "FesMskModel"
    THEN Raised(ModelTypeError, <<"model">>)
    ELSE IF ~IsInstanceInt(n_shooting) \/ n_shooting.num < 0
    THEN Raised(TypeError("n_shooting must be a positive int type"), <<"model", "n_shooting">>)
    ELSE IF ~IsInstanceIntFloat(final_time) \/ final_time.num < 0
    THEN Raised(TypeError("final_time must be a positive int or float type"),
                <<"model", "n_shooting", "final_time">>)
    ELSE Passed(<<"model", "n_shooting", "final_time">>)

PulseModeNotImplemented ==
    NotImplementedError("Pulse mode '{pulse_event['pulse_mode']}' is not yet implemented")

\* fes_ocp.py:304-307
sanity_pulse_mode(pulse_event) ==
    IF pulse_event["pulse_mode"] # PyStr("single")
    THEN Raised(PulseModeNotImplemented, <<"pulse_mode">>)
    ELSE Passed(<<"pulse_mode">>)

\* fes_ocp.py:309-323
sanity_pulse_event(pulse_event) ==
    IF Truthy(pulse_event["frequency"]) /\ ~IsInstanceIntFloat(pulse_event["frequency"])
    THEN Raised(TypeError("frequency must be int or float type"), <<"frequency">>)
    ELSE IF Truthy(pulse_event["frequency"]) /\ pulse_event["frequency"].num <= 0
    THEN Raised(ValueError("frequency must be positive"), <<"frequency">>)
    ELSE IF CountNone(pulse_event["min"], pulse_event["max"]) = 1
    THEN Raised(ValueError("min and max time event must be both entered or none of them in order to work"),
                <<"frequency", "min_max">>)
    ELSE IF Truthy(pulse_event["bimapping"]) /\ ~IsInstanceBool(pulse_event["bimapping"])
    THEN Raised(TypeError("time bimapping must be bool type"),
                <<"frequency", "min_max", "bimapping">>)
    ELSE Passed(<<"frequency", "min_max", "bimapping">>)

\* all(isinstance(x, int | float) for x in v): a list that holds something
\* else than numbers carries the type of that element in str
AllNumbers(v) == v.str = ""

PulseDurationTooLow(key) ==
    ValueError("The pulse duration set ({pulse_duration['" \o key
               \o "']}) is lower than minimum duration required."
               \o " Set a value above {minimum_pulse_duration} seconds ")

\* fes_ocp.py:348-372: `if pulse_duration["fixed"]:` and its branches
sanity_fixed_duration(fixed, minimum) ==
    IF ~Truthy(fixed) THEN NoExc
    ELSE IF IsInstanceIntFloat(fixed)
    THEN IF fixed.num < minimum THEN PulseDurationTooLow("fixed") ELSE NoExc
    ELSE IF IsInstanceList(fixed)
    THEN IF ~AllNumbers(fixed) THEN TypeError("pulse_duration must be int or float type")
         ELSE IF ~(\A i \in DOMAIN fixed.lst : fixed.lst[i] >= minimum)
         THEN PulseDurationTooLow("fixed")
         ELSE NoExc
    ELSE TypeError("Wrong pulse_duration type, only int or float accepted")

\* fes_ocp.py:374-390: `elif pulse_duration["min"] and pulse_duration["max"]:`
sanity_duration_bounds(min, max, minimum) ==
    IF ~(Truthy(min) /\ Truthy(max)) THEN NoExc
    ELSE IF ~IsInstanceIntFloat(min) \/ ~IsInstanceIntFloat(max)
    THEN TypeError("min and max pulse duration must be int or float type")
    ELSE IF max.num < min.num
    THEN ValueError("The set minimum pulse duration is higher than maximum pulse duration.")
    ELSE IF min.num < minimum THEN PulseDurationTooLow("min")
    ELSE NoExc

\* isinstance(v, None | bool)
IsNoneOrBool(v) == v.ty \in {"NoneType", "bool"}

\* fes_ocp.py:325-395; pd0 is model.pd0
sanity_pulse_duration(model, pulse_duration, pd0) ==
    LET fixed == pulse_duration["fixed"]
        min == pulse_duration["min"]
        max == pulse_duration["max"]
        minimum == IF pd0 = PyNone THEN 0 ELSE pd0.num
        value == IF Truthy(fixed) THEN sanity_fixed_duration(fixed, minimum)
                 ELSE sanity_duration_bounds(min, max, minimum)
    IN  IF ~IsPulseDurationModel(model) THEN Passed(<<>>)
        ELSE IF fixed = PyNone /\ CountNone(min, max) # 0
        THEN Raised(ValueError("pulse duration or pulse duration min max bounds need to be set for this model"),
                    <<"pulse_duration_set">>)
        ELSE IF Truthy(fixed) /\ Truthy(min) /\ Truthy(max)
        THEN Raised(ValueError("Either pulse duration or pulse duration min max bounds need to be set for this model"),
                    <<"pulse_duration_set", "pulse_duration_either">>)
        ELSE IF value # NoExc
        THEN Raised(value, <<"pulse_duration_set", "pulse_duration_either",
                             "pulse_duration_value">>)
        ELSE IF ~IsNoneOrBool(pulse_duration["bimapping"])
        THEN Raised(NotImplementedError("If added, pulse duration parameter mapping must be a bool type"),
                    <<"pulse_duration_set", "pulse_duration_either", "pulse_duration_value",
                      "pulse_duration_bimapping">>)
        ELSE Passed(<<"pulse_duration_set", "pulse_duration_either", "pulse_duration_value",
                      "pulse_duration_bimapping">>)

PulseIntensityTooLow(key, unit) ==
    ValueError("The pulse intensity set ({pulse_intensity['" \o key
               \o "']}) is lower than minimum intensity required. Set a value above {minimum_pulse_intensity} "
               \o unit \o " ")

\* fes_ocp.py:423-445
sanity_fixed_intensity(fixed, minimum) ==
    IF ~Truthy(fixed) THEN NoExc
    ELSE IF IsInstanceIntFloat(fixed)
    THEN IF fixed.num < minimum THEN PulseIntensityTooLow("fixed", "mA") ELSE NoExc
    ELSE IF IsInstanceList(fixed)
    THEN IF ~AllNumbers(fixed) THEN TypeError("pulse_intensity must be int or float type")
         ELSE IF ~(\A i \in DOMAIN fixed.lst : fixed.lst[i] >= minimum)
         THEN PulseIntensityTooLow("fixed", "seconds")
         ELSE NoExc
    ELSE TypeError("pulse_intensity must be int or float type")

\* fes_ocp.py:447-463
sanity_intensity_bounds(min, max, minimum) ==
    IF ~(Truthy(min) /\ Truthy(max)) THEN NoExc
    ELSE IF ~IsInstanceIntFloat(min) \/ ~IsInstanceIntFloat(max)
    THEN TypeError("pulse_intensity_min and pulse_intensity_max must be int or float type")
    ELSE IF max.num < min.num
    THEN ValueError("The set minimum pulse intensity is higher than maximum pulse intensity.")
    ELSE IF min.num < minimum THEN PulseIntensityTooLow("min", "mA")
    ELSE NoExc

\* fes_ocp.py:397-468; min_intensity is model.min_pulse_intensity(), or None
\* when one of model.cr, model.bs, model.Is is None
sanity_pulse_intensity(model, pulse_intensity, min_intensity) ==
    LET fixed == pulse_intensity["fixed"]
        min == pulse_intensity["min"]
        max == pulse_intensity["max"]
        minimum == IF min_intensity = PyNone THEN 0 ELSE min_intensity.num
        value == IF Truthy(fixed) THEN sanity_fixed_intensity(fixed, minimum)
                 ELSE sanity_intensity_bounds(min, max, minimum)
    IN  IF ~IsPulseIntensityModel(model) THEN Passed(<<>>)
        ELSE IF fixed = PyNone /\ CountNone(min, max) # 0
        THEN Raised(ValueError("Pulse intensity or pulse intensity min max bounds need to be set for this model"),
                    <<"pulse_intensity_set">>)
        ELSE IF Truthy(fixed) /\ Truthy(min) /\ Truthy(max)
        THEN Raised(ValueError("Either pulse intensity or pulse intensity min max bounds need to be set for this model"),
                    <<"pulse_intensity_set", "pulse_intensity_either">>)
        ELSE IF value # NoExc
        THEN Raised(value, <<"pulse_intensity_set", "pulse_intensity_either",
                             "pulse_intensity_value">>)
        ELSE IF ~IsNoneOrBool(pulse_intensity["bimapping"])
        THEN Raised(NotImplementedError("If added, pulse intensity parameter mapping must be a bool type"),
                    <<"pulse_intensity_set", "pulse_intensity_either", "pulse_intensity_value",
                      "pulse_intensity_bimapping">>)
        ELSE Passed(<<"pulse_intensity_set", "pulse_intensity_either", "pulse_intensity_value",
                      "pulse_intensity_bimapping">>)

\* a list whose elements are np.ndarray; lst holds their lengths
IsArrayList(v) == v.ty = "list" /\ v.str = "ndarray"

\* fes_ocp.py:470-487
sanity_force_tracking(force_tracking) ==
    IF ~Truthy(force_tracking) THEN NoExc
    ELSE IF ~IsInstanceList(force_tracking) THEN TypeError("force_tracking must be list type")
    ELSE IF ~IsArrayList(force_tracking)
    THEN TypeError("force_tracking argument must be np.ndarray type")
    ELSE IF Len(force_tracking.lst) < 2 THEN Exc("IndexError", "list index out of range")
    ELSE IF force_tracking.lst[1] # force_tracking.lst[2] \/ Len(force_tracking.lst) # 2
    THEN ValueError("force_tracking time and force argument must be same length and force_tracking list size 2")
    ELSE NoExc

\* fes_ocp.py:470-499
sanity_objective(objective) ==
    IF sanity_force_tracking(objective["force_tracking"]) # NoExc
    THEN Raised(sanity_force_tracking(objective["force_tracking"]), <<"force_tracking">>)
    ELSE IF Truthy(objective["end_node_tracking"])
            /\ ~IsInstanceIntFloat(objective["end_node_tracking"])
    THEN Raised(TypeError("end_node_tracking must be int or float type"),
                <<"force_tracking", "end_node_tracking">>)
    ELSE IF Truthy(objective["custom"]) /\ objective["custom"].ty # "ObjectiveList"
    THEN Raised(TypeError("custom_objective must be a ObjectiveList type"),
                <<"force_tracking", "end_node_tracking", "custom">>)
    ELSE IF Truthy(objective["custom"]) /\ objective["custom"].str # "Objective"
    THEN Raised(TypeError("All elements in ObjectiveList must be an Objective type"),
                <<"force_tracking", "end_node_tracking", "custom">>)
    ELSE Passed(<<"force_tracking", "end_node_tracking", "custom">>)

\* a variant that reports the settings of the solver as range errors
sanity_solver_value_errors(ode_solver, use_sx, n_threads) ==
    IF ode_solver.ty # "OdeSolver"
    THEN Raised(ValueError("ode_solver must be a OdeSolver type"), <<"ode_solver">>)
    ELSE IF ~IsInstanceBool(use_sx)
    THEN Raised(ValueError("use_sx must be a bool type"), <<"ode_solver", "use_sx">>)
    ELSE IF ~IsInstanceInt(n_threads)
    THEN Raised(ValueError("n_thread must be a int type"),
                <<"ode_solver", "use_sx", "n_threads">>)
    ELSE Passed(<<"ode_solver", "use_sx", "n_threads">>)

\* fes_ocp.py:501-511
sanity_solver(ode_solver, use_sx, n_threads) ==
    IF ode_solver.ty # "OdeSolver"
    THEN Raised(TypeError("ode_solver must be a OdeSolver type"), <<"ode_solver">>)
    ELSE IF ~IsInstanceBool(use_sx)
    THEN Raised(TypeError("use_sx must be a bool type"), <<"ode_solver", "use_sx">>)
    ELSE IF ~IsInstanceInt(n_threads)
    THEN Raised(TypeError("n_thread must be a int type"),
                <<"ode_solver", "use_sx", "n_threads">>)
    ELSE Passed(<<"ode_solver", "use_sx", "n_threads">>)

\* OcpFes._sanity_check, called with the dictionaries _fill_dict returned
sanity_check(input, dicts) ==
    AndThen(AndThen(AndThen(AndThen(AndThen(AndThen(
        sanity_model_and_times(input["model"], input["n_shooting"], input["final_time"]),
        sanity_pulse_mode(dicts.pulse_event)),
        sanity_pulse_event(dicts.pulse_event)),
        sanity_pulse_duration(input["model"], dicts.pulse_duration, input["model.pd0"])),
        sanity_pulse_intensity(input["model"], dicts.pulse_intensity,
                               input["model.min_pulse_intensity"])),
        sanity_objective(dicts.objective)),
        sanity_solver(input["ode_solver"], input["use_sx"], input["n_threads"]))

(***************************************************************************)
(* OcpFes._build_parameters and OcpFes._build_constraints.                 *)
(***************************************************************************)
\* isinstance(v, DingModelPulseDurationFrequency | ...Integrate)
IsDurationParameterModel(v) ==
    v.ty = "model" /\ v.str \in {"ding2007", "ding2007_integrate"}
\* isinstance(v, DingModelIntensityFrequency | ...Integrate)
IsIntensityParameterModel(v) ==
    v.ty = "model" /\ v.str \in {"hmed2018", "hmed2018_integrate"}

\* fes_ocp.py:541-553: np.cumsum([pulse_event["min"]] * (n_stim - 1)) and the
\* same of max add up the bounds, which numpy refuses for what is no number
event_bounds(pulse_event, n) ==
    IF /\ Truthy(pulse_event["min"]) /\ Truthy(pulse_event["max"])
       /\ n >= 2
       /\ ~IsInstanceIntFloat(pulse_event["min"]) \/ ~IsInstanceIntFloat(pulse_event["max"])
    THEN TypeError("ufunc 'add' did not contain a loop with signature matching types")
    ELSE NoExc

BimappingNotImplemented == NotImplementedError("Bimapping is not yet implemented for pulse event")

\* fes_ocp.py:563-566
event_bimapping(pulse_event) ==
    IF Truthy(pulse_event["bimapping"]) /\ Truthy(pulse_event["min"])
       /\ Truthy(pulse_event["max"])
    THEN BimappingNotImplemented
    ELSE NoExc

\* fes_ocp.py:568-619 / 621-668: the parameter added for the pulse value,
\* <<name, size>>, if one is added
PulseParameter(name, value, n) ==
    LET size == IF Truthy(value["bimapping"]) THEN 1 ELSE n
    IN  IF Truthy(value["fixed"]) \/ (Truthy(value["min"]) /\ Truthy(value["max"]))
        THEN << <<name, size>> >>
        ELSE <<>>

\* OcpFes._build_parameters: the exception it raises and the parameters it
\* has added, as <<name, size>>
ocp_build_parameters(model, stim, dicts) ==
    IF ~IsInstanceList(stim)
    THEN [raised |-> TypeError("object of type '{type(stim_time)}' has no len()"),
          parameters |-> <<>>]
    ELSE LET n == Len(stim.lst)
             apparition == << <<"pulse_apparition_time", n>> >>
         IN  IF event_bounds(dicts.pulse_event, n) # NoExc
             THEN [raised |-> event_bounds(dicts.pulse_event, n), parameters |-> apparition]
             ELSE IF event_bimapping(dicts.pulse_event) # NoExc
             THEN [raised |-> event_bimapping(dicts.pulse_event), parameters |-> apparition]
             ELSE [raised |-> NoExc,
                   parameters |->
                       apparition
                       \o (IF IsDurationParameterModel(model)
                           THEN PulseParameter("pulse_duration", dicts.pulse_duration, n)
                           ELSE <<>>)
                       \o (IF IsIntensityParameterModel(model)
                           THEN PulseParameter("pulse_intensity", dicts.pulse_intensity, n)
                           ELSE <<>>)]

\* fes_ocp.py:687  max_stim_to_keep when the model has no truncation
MaxStimToKeepDefault == 10000000

\* fes_ocp.py:681-682: np.where(stim_time[k] <= time_vector)[0][0] with
\* time_vector = np.linspace(0, final_time, n_shooting + 1); node j is at
\* j * final_time / n_shooting.  -1 stands for the IndexError of an empty
\* np.where.
NodeOf(t, n_shooting, final_time) ==
    LET nodes == IF n_shooting = 0 THEN {j \in {0} : t <= 0}
                 ELSE {j \in 0..n_shooting : t * n_shooting <= j * final_time}
    IN  IF nodes = {} THEN -1 ELSE CHOOSE j \in nodes : \A k \in nodes : j <= k

StimAtNode(stim, n_shooting, final_time) ==
    [k \in DOMAIN stim |-> NodeOf(stim[k], n_shooting, final_time)]

\* stim_time[index_inf:index_sup]
Slice(s, index_inf, index_sup) ==
    LET hi == IF index_sup > Len(s) THEN Len(s) ELSE index_sup
    IN  IF index_inf >= hi THEN <<>> ELSE SubSeq(s, index_inf + 1, hi)

\* [i for i in range(index_inf, index_sup)]
IndexRange(index_inf, index_sup) ==
    IF index_inf >= index_sup THEN <<>>
    ELSE [k \in 1..(index_sup - index_inf) |-> index_inf + k - 1]

\* a variant in which stim_index is built before index_inf is moved
RECURSIVE CnSumLoopStaleIndex(_, _, _, _, _, _, _, _)
CnSumLoopStaleIndex(i, last, stim_at_node, stim, max_stim_to_keep, index_sup, index_inf, stim_index) ==
    IF i >= last THEN <<>>
    ELSE LET hit == \E k \in DOMAIN stim_at_node : stim_at_node[k] = i
             sup == IF hit THEN index_sup + 1 ELSE index_sup
             inf == IF hit /\ sup >= max_stim_to_keep THEN sup - max_stim_to_keep
                    ELSE index_inf
             idx == IF hit THEN IndexRange(index_inf, sup) ELSE stim_index
         IN  << [node |-> i, stim_time |-> Slice(stim, inf, sup), stim_index |-> idx,
                 index_inf |-> inf, index_sup |-> sup] >>
             \o CnSumLoopStaleIndex(i + 1, last, stim_at_node, stim, max_stim_to_keep, sup, inf, idx)

\* fes_ocp.py:693-705: the loop from node i on; each element is the
\* constraint added at a node, with the values index_inf and index_sup have
\* when it is added
RECURSIVE CnSumLoop(_, _, _, _, _, _, _, _)
CnSumLoop(i, last, stim_at_node, stim, max_stim_to_keep, index_sup, index_inf, stim_index) ==
    IF i >= last THEN <<>>
    ELSE LET hit == \E k \in DOMAIN stim_at_node : stim_at_node[k] = i
             sup == IF hit THEN index_sup + 1 ELSE index_sup
             inf == IF hit /\ sup >= max_stim_to_keep THEN sup - max_stim_to_keep
                    ELSE index_inf
             idx == IF hit THEN IndexRange(inf, sup) ELSE stim_index
         IN  << [node |-> i, stim_time |-> Slice(stim, inf, sup), stim_index |-> idx,
                 index_inf |-> inf, index_sup |-> sup] >>
             \o CnSumLoop(i + 1, last, stim_at_node, stim, max_stim_to_keep, sup, inf, idx)

\* fes_ocp.py:707-716: last_stim_index of the a_calculation constraint of
\* each node from i on
RECURSIVE ACalculationLoop(_, _, _, _)
ACalculationLoop(i, last, stim_at_node, index) ==
    IF i >= last THEN <<>>
    ELSE LET hit == i # 0 /\ \E k \in DOMAIN stim_at_node : stim_at_node[k] = i
             next == IF hit THEN index + 1 ELSE index
         IN  << [node |-> i, last_stim_index |-> next] >>
             \o ACalculationLoop(i + 1, last, stim_at_node, next)

NoConstraints == [raised |-> NoExc, cn_sum |-> <<>>, a_calculation |-> <<>>]

\* OcpFes._build_constraints; truncation is model._sum_stim_truncation
build_constraints(model, n_shooting, final_time, stim, control_type, truncation) ==
    LET stim_at_node == StimAtNode(stim, n_shooting, final_time)
        additional_nodes == IF control_type = "LINEAR_CONTINUOUS" THEN 1 ELSE 0
        max_stim_to_keep == IF Truthy(truncation) THEN truncation.num
                            ELSE MaxStimToKeepDefault
        last == n_shooting + additional_nodes
    IN  IF \E k \in DOMAIN stim : stim_at_node[k] = -1
        THEN [NoConstraints EXCEPT !.raised =
                  Exc("IndexError", "index 0 is out of bounds for axis 0 with size 0")]
        ELSE [raised |-> NoExc,
              cn_sum |-> CnSumLoop(0, last, stim_at_node, stim, max_stim_to_keep, 0, 0, <<>>),
              a_calculation |->
                  IF model.ty = "model" /\ model.str = "ding2007"
                  THEN ACalculationLoop(0, last, stim_at_node, 0)
                  ELSE <<>>]

(***************************************************************************)
(* Init: a call is made with dictionaries the caller built.                *)
(***************************************************************************)
NoResult == [raised |-> "none", dxdt |-> <<>>]

\* the attributes a model object holds after construction: ding2007.py:52-61;
\* a_rest is set by the parent class
DefaultAttrs ==
    [a_rest |-> ARest, tau1_rest |-> Tau1Rest, km_rest |-> KmRest, a_scale |-> AScale,
     pd0 |-> Pd0, pdt |-> Pdt, tauc |-> Tauc, tau2 |-> Tau2, impulse_time |-> PyNone]

\* and after an identification has set them: ding2007.py:74-82 set_a_scale,
\* set_pd0, set_pdt, and the rest values assigned from outside
IdentifiedAttrs ==
    [DefaultAttrs EXCEPT !.a_rest = ARest - 509, !.tau1_rest = Tau1Rest - 601,
                         !.km_rest = KmRest + 1, !.a_scale = AScale - 20,
                         !.pd0 = Pd0 - 405, !.pdt = Pdt + 862]

\* OcpFes.prepare_ocp is not being called
NoOcpCall ==
    /\ input_dict = EmptyDict
    /\ ocp_dicts = EmptyDict
    /\ ocp_pc = "none"
    /\ ocp_raised = NoExc
    /\ ocp_built = <<>>
    /\ ocp_evaluated = <<>>
    /\ ocp_parameters = <<>>
    /\ constraints = NoConstraints

\* no model function is being evaluated
NoModelCall ==
    /\ call = "none"
    /\ time = 0
    /\ stim_prev = <<>>
    /\ pulse_parameters = <<>>
    /\ states = <<>>
    /\ returned = FALSE
    /\ a = Term("none", <<>>)
    /\ dxdt = NoResult
    /\ model_attrs = DefaultAttrs
    /\ history = <<>>

Call(e, fes, ivp) ==
    /\ entry = e
    /\ fes_arg = fes
    /\ ivp_arg = ivp
    /\ fes_parameters = fes
    /\ ivp_parameters = ivp
    /\ pc = IF e = "__init__" THEN "fill" ELSE "classmethod"
    /\ int_is_integer \in IF e = "from_frequency_and_final_time" THEN BOOLEAN ELSE {TRUE}
    /\ steps = <<>>
    /\ raised = NoExc
    /\ evaluated = <<>>
    /\ n_stim = 0
    /\ stim_time = <<>>
    /\ built = {}
    /\ x_init = <<>>
    /\ NoModelCall
    /\ NoOcpCall
    /\ NoLibCall

\* IvpFes(fes_parameters, ivp_parameters) with a pulse-duration model
InitDuration ==
    \/ \E st \in TrainArgs, n \in NStimArgs, d \in PulseValues(DurationSet), mode \in PulseModes :
          Call("__init__", FesDict(PyModel("ding2007"), st, n, d, Absent, mode), ValidIvp)
    \/ \E st \in StimArgs, n \in NStimArgs, d \in FewPulseValues(DurationSet), mode \in PulseModes :
          Call("__init__", FesDict(PyModel("ding2007"), st, n, d, Absent, mode), ValidIvp)

\* IvpFes(fes_parameters, ivp_parameters) with a pulse-intensity model
InitIntensity ==
    \E st \in TrainArgs, n \in NStimArgs, i \in PulseValues(IntensitySet), mode \in PulseModes :
        Call("__init__", FesDict(PyModel("hmed2018"), st, n, Absent, i, mode), ValidIvp)

\* IvpFes(fes_parameters, ivp_parameters) with the other models, default
\* pulse values, and ivp_parameters that lack a key
InitOther ==
    \E m \in {Absent, PyModel("ding2003"), PyModel("ding2007_with_fatigue"),
              PyModel("hmed2018_with_fatigue"), PyModel("hmed2018_with_fatigue_integrate")},
       st \in {Absent, PyList(RegularTrain(MaxStim))},
       n \in {Absent, PyInt(3), PyFloat(3)}, mode \in PulseModes,
       ivp \in {ValidIvp, [n_shooting |-> PyInt(100)], [final_time |-> PyFloat(30)],
                [n_shooting |-> PyInt(0), final_time |-> PyFloat(30)]} :
        Call("__init__", FesDict(m, st, n, Absent, Absent, mode), ivp)

\* IvpFes.from_frequency_and_final_time(fes_parameters, ivp_parameters)
InitFinalTime ==
    \E st \in {Absent, PyList(RegularTrain(MaxStim))},
       fr \in {Absent, PyInt(10), PyInt(30), PyFloat(1050)},
       rd \in {Absent, PyBool(TRUE), PyBool(FALSE), PyInt(1)},
       ft \in {Absent, PyNone, PyInt(1), PyFloat(30), PyFloat(100), PyFloat(125), PyFloat(5)} :
        Call("from_frequency_and_final_time",
             WithKey(WithKey(FesDict(PyModel("ding2003"), st, Absent, Absent, Absent, Absent),
                 "frequency", fr), "round_down", rd),
             WithKey([n_shooting |-> PyInt(100)], "final_time", ft))

\* IvpFes.from_frequency_and_n_stim(fes_parameters, ivp_parameters)
InitNStim ==
    \E st \in {Absent, PyList(RegularTrain(MaxStim))},
       n \in {Absent, PyInt(3), PyFloat(300)},
       fr \in {Absent, PyInt(0), PyInt(10), PyFloat(1050)} :
        Call("from_frequency_and_n_stim",
             WithKey(FesDict(PyModel("ding2003"), st, n, Absent, Absent, Absent),
                 "frequency", fr),
             [n_shooting |-> PyInt(100)])

\* an OdeSolver.RK1 / RK2 / RK4 / COLLOCATION instance
PyOdeSolver(name) == PyVal("OdeSolver", 0, name, <<>>)

\* IvpFes(fes_parameters, ivp_parameters) with solver settings of any type
InitSolver ==
    \E m \in {PyModel("ding2003"), PyModel("ding2007")},
       os \in {Absent, PyOdeSolver("RK1"), PyOdeSolver("COLLOCATION"), PyNone, PyStr("RK4")},
       sx \in {Absent, PyBool(FALSE), PyInt(1), PyNone, PyStr("True")},
       nt \in {Absent, PyInt(4), PyBool(TRUE), PyFloat(100), PyNone, PyStr("1")} :
        Call("__init__",
             FesDict(m, PyList(RegularTrain(MaxStim)), PyInt(MaxStim), Absent, Absent, Absent),
             WithKey(WithKey(WithKey(ValidIvp, "ode_solver", os), "use_sx", sx),
                     "n_threads", nt))

Init ==
    \/ InitDuration
    \/ InitIntensity
    \/ InitOther
    \/ InitFinalTime
    \/ InitNStim
    \/ InitSolver

(***************************************************************************)
(* Actions: the steps of the entry points, in program order.               *)
(***************************************************************************)
\* the outcome of a step: go on at `next`, or end with the exception
Goto(exc, next) ==
    /\ raised' = exc
    /\ pc' = IF exc = NoExc THEN next ELSE "raised"

FromFrequencyAndFinalTime ==
    /\ pc = "classmethod"
    /\ steps' = Append(steps, "from_frequency_and_final_time")
    /\ entry = "from_frequency_and_final_time"
    /\ LET r == from_frequency_and_final_time(fes_parameters, ivp_parameters, int_is_integer)
       IN  /\ fes_parameters' = r.fes
           /\ ivp_parameters' = r.ivp
           /\ Goto(r.raised, "fill")
    /\ UNCHANGED <<dynVars, ocpVars, x_init, libVars>>
    /\ UNCHANGED <<entry, int_is_integer, fes_arg, ivp_arg, evaluated, n_stim, stim_time, built>>

FromFrequencyAndNStim ==
    /\ pc = "classmethod"
    /\ steps' = Append(steps, "from_frequency_and_n_stim")
    /\ entry = "from_frequency_and_n_stim"
    /\ LET r == from_frequency_and_n_stim(fes_parameters, ivp_parameters)
       IN  /\ fes_parameters' = r.fes
           /\ ivp_parameters' = r.ivp
           /\ Goto(r.raised, "fill")
    /\ UNCHANGED <<dynVars, ocpVars, x_init, libVars>>
    /\ UNCHANGED <<entry, int_is_integer, fes_arg, ivp_arg, evaluated, n_stim, stim_time, built>>

\* __init__ lines 58-59
FillDicts ==
    /\ pc = "fill"
    /\ steps' = Append(steps, "fill_dicts")
    /\ fes_parameters' = fill_fes_dict(fes_parameters)
    /\ ivp_parameters' = fill_ivp_dict(ivp_parameters)
    /\ pc' = "check"
    /\ UNCHANGED <<dynVars, ocpVars, x_init, libVars>>
    /\ UNCHANGED <<entry, int_is_integer, fes_arg, ivp_arg, raised, evaluated, n_stim,
                   stim_time, built>>

\* __init__ line 60
DictionariesCheck ==
    /\ pc = "check"
    /\ steps' = Append(steps, "dictionaries_check")
    /\ LET r == dictionaries_check(fes_parameters, ivp_parameters)
       IN  /\ evaluated' = r.evaluated
           /\ Goto(r.raised, "assign")
    /\ UNCHANGED <<dynVars, ocpVars, x_init, libVars>>
    /\ UNCHANGED <<entry, int_is_integer, fes_arg, ivp_arg, fes_parameters, ivp_parameters,
                   n_stim, stim_time, built>>

\* __init__ lines 62-75: self.n_stim is read before self.stim_time; dt is
\* final_time / n_shooting
assign_fields(fes, ivp) ==
    IF ~HasKey(fes, "stim_time")
    THEN [raised |-> KeyError("stim_time"), n_stim |-> fes["n_stim"].num, stim_time |-> <<>>]
    ELSE [raised |->
             IF ~IsInstanceIntFloat(ivp["n_shooting"])
             THEN TypeError("unsupported operand type(s) for /")
             ELSE IF ivp["n_shooting"].num = 0
             THEN Exc("ZeroDivisionError", "float division by zero")
             ELSE NoExc,
          n_stim |-> fes["n_stim"].num,
          stim_time |-> fes["stim_time"].lst]

AssignFields ==
    /\ pc = "assign"
    /\ steps' = Append(steps, "assign_fields")
    /\ LET r == assign_fields(fes_parameters, ivp_parameters)
       IN  /\ n_stim' = r.n_stim
           /\ stim_time' = r.stim_time
           /\ Goto(r.raised, "pulse_mode")
    /\ UNCHANGED <<dynVars, ocpVars, x_init, libVars>>
    /\ UNCHANGED <<entry, int_is_integer, fes_arg, ivp_arg, fes_parameters, ivp_parameters,
                   evaluated, built>>

\* __init__ line 76
PulseModeSettings ==
    /\ pc = "pulse_mode"
    /\ steps' = Append(steps, "pulse_mode_settings")
    /\ LET r == pulse_mode_settings(fes_parameters["pulse_mode"].str, stim_time, n_stim)
       IN  /\ n_stim' = r.n_stim
           /\ stim_time' = r.stim_time
           /\ Goto(r.raised, "parameters")
    /\ UNCHANGED <<dynVars, ocpVars, x_init, libVars>>
    /\ UNCHANGED <<entry, int_is_integer, fes_arg, ivp_arg, fes_parameters, ivp_parameters,
                   evaluated, built>>

\* __init__ lines 78-144
BuildParameters ==
    /\ pc = "parameters"
    /\ steps' = Append(steps, "build_parameters")
    /\ built' = built \cup {"ParameterList", "InitialGuessList", "BoundsList"}
    /\ Goto(build_parameters(fes_parameters["model"], fes_parameters["pulse_duration"],
                             fes_parameters["pulse_intensity"], n_stim),
            "declare_dynamics")
    /\ UNCHANGED <<dynVars, ocpVars, x_init, libVars>>
    /\ UNCHANGED <<entry, int_is_integer, fes_arg, ivp_arg, fes_parameters, ivp_parameters,
                   evaluated, n_stim, stim_time>>

\* name_dof of the models without fatigue: the two states of the base model
ding2003_name_dof == <<"Cn", "F">>

\* standard_rest_values() of the models without fatigue
ding2003_standard_rest_values == <<0, 0>>

\* model.name_dof, by the family of the model
name_dof(model) ==
    IF model.str \in {"ding2007_with_fatigue", "hmed2018_with_fatigue",
                      "hmed2018_with_fatigue_integrate"}
    THEN hmed2018_name_dof("", FALSE)
    ELSE ding2003_name_dof

\* model.standard_rest_values(), by the family of the model
standard_rest_values(model, self) ==
    IF model.str \in {"ding2007_with_fatigue", "hmed2018_with_fatigue",
                      "hmed2018_with_fatigue_integrate"}
    THEN hmed2018_standard_rest_values(self)
    ELSE ding2003_standard_rest_values

\* a variant that leaves out the last state
build_initial_guess_short(names, rest_values) ==
    [j \in 1..(Len(names) - 1) |-> [key |-> names[j], initial_guess |-> rest_values[j]]]

\* IvpFes.build_initial_guess_from_ocp: the state initial guesses x, in the
\* order they are added
build_initial_guess_from_ocp(names, rest_values) ==
    [j \in 1..Len(names) |-> [key |-> names[j], initial_guess |-> rest_values[j]]]

\* __init__ lines 145-146
DeclareDynamics ==
    /\ pc = "declare_dynamics"
    /\ steps' = Append(steps, "declare_dynamics")
    /\ built' = built \cup {"DynamicsList"}
    /\ x_init' = build_initial_guess_from_ocp(
                      name_dof(fes_parameters["model"]),
                      standard_rest_values(fes_parameters["model"], model_attrs))
    /\ pc' = "prepare_fake_ocp"
    /\ UNCHANGED <<dynVars, ocpVars, libVars>>
    /\ UNCHANGED <<entry, int_is_integer, fes_arg, ivp_arg, fes_parameters, ivp_parameters,
                   raised, evaluated, n_stim, stim_time>>

\* __init__ lines 148-153
PrepareFakeOcp ==
    /\ pc = "prepare_fake_ocp"
    /\ steps' = Append(steps, "prepare_fake_ocp")
    /\ built' = built \cup {"OptimalControlProgram", "Solution"}
    /\ pc' = "done"
    /\ UNCHANGED <<dynVars, ocpVars, x_init, libVars>>
    /\ UNCHANGED <<entry, int_is_integer, fes_arg, ivp_arg, fes_parameters, ivp_parameters,
                   raised, evaluated, n_stim, stim_time>>

\* IvpFes.integrate(): it hands its arguments to the Solution built by
\* __init__ and raises nothing itself
Integrate ==
    /\ pc = "done"
    /\ steps' = Append(steps, "integrate")
    /\ pc' = "integrated"
    /\ UNCHANGED <<dynVars, ocpVars, x_init, libVars>>
    /\ UNCHANGED <<entry, int_is_integer, fes_arg, ivp_arg, fes_parameters, ivp_parameters,
                   raised, evaluated, n_stim, stim_time, built>>

Next ==
    \/ FromFrequencyAndFinalTime
    \/ FromFrequencyAndNStim
    \/ FillDicts
    \/ DictionariesCheck
    \/ AssignFields
    \/ PulseModeSettings
    \/ BuildParameters
    \/ DeclareDynamics
    \/ PrepareFakeOcp
    \/ Integrate

Spec == Init /\ [][Next]_vars

(***************************************************************************)
(* The model functions, called on their own: SpecDyn.                      *)
(***************************************************************************)
\* pulse apparition times (microseconds), evaluation times, pulse values
PulseTimeSet == {0, 100000, 200000}
EvalTimeSet == {-1000, 0, 50000, 100000, 250000}
\* pulse durations (nanoseconds); 0 is a pulse of no duration
PulseDurationSet == {0, 200000, 300000}
StateSet == {<<0, 0, 3009, 50957, 103>>, <<1, 50, 3000, 51000, 110>>,
             <<0, 0, ARest, Tau1Rest, KmRest>>}

\* no IvpFes is being constructed
NoConstruction ==
    /\ entry = "none"
    /\ int_is_integer = TRUE
    /\ fes_arg = EmptyDict
    /\ ivp_arg = EmptyDict
    /\ fes_parameters = EmptyDict
    /\ ivp_parameters = EmptyDict
    /\ pc = "none"
    /\ steps = <<>>
    /\ raised = NoExc
    /\ evaluated = <<>>
    /\ n_stim = 0
    /\ stim_time = <<>>
    /\ built = {}

DynInit ==
    /\ NoConstruction
    /\ NoOcpCall
    /\ NoLibCall
    /\ x_init = <<>>
    /\ call \in {"a_calculation", "ding2007.dynamics", "hmed2018_with_fatigue.dynamics"}
    /\ time \in EvalTimeSet
    /\ stim_prev \in SeqsUpTo(PulseTimeSet, MaxStim)
    /\ pulse_parameters \in SeqsUpTo(PulseDurationSet, MaxPulseList)
    /\ states \in StateSet
    /\ returned = FALSE
    /\ a = Term("none", <<>>)
    /\ dxdt = NoResult
    /\ model_attrs \in {DefaultAttrs, IdentifiedAttrs}
    /\ history = <<>>

\* model.a_calculation(a_scale, impulse_time, t, t_stim_prev)
ACalculation ==
    /\ call = "a_calculation"
    /\ ~returned
    /\ a' = a_calculation(model_attrs, model_attrs.a_scale, pulse_parameters, time, stim_prev)
    /\ returned' = TRUE
    /\ UNCHANGED <<call, time, stim_prev, pulse_parameters, states, dxdt, model_attrs,
                   history>>
    /\ UNCHANGED <<ivpVars, ocpVars, x_init, libVars>>

\* DingModelPulseDurationFrequency.dynamics(time, states, ..., stim_prev)
Ding2007Dynamics ==
    /\ call = "ding2007.dynamics"
    /\ ~returned
    /\ dxdt' = ding2007_dynamics(model_attrs, time, states, pulse_parameters, stim_prev)
    /\ returned' = TRUE
    /\ UNCHANGED <<call, time, stim_prev, pulse_parameters, states, a, model_attrs,
                   history>>
    /\ UNCHANGED <<ivpVars, ocpVars, x_init, libVars>>

\* DingModelIntensityFrequencyWithFatigueIntegrate.dynamics(time, states, ...)
Hmed2018Dynamics ==
    /\ call = "hmed2018_with_fatigue.dynamics"
    /\ ~returned
    /\ dxdt' = hmed2018_dynamics(model_attrs, time, states, pulse_parameters, stim_prev)
    /\ returned' = TRUE
    /\ UNCHANGED <<call, time, stim_prev, pulse_parameters, states, a, model_attrs,
                   history>>
    /\ UNCHANGED <<ivpVars, ocpVars, x_init, libVars>>

DynNext == ACalculation \/ Ding2007Dynamics \/ Hmed2018Dynamics

SpecDyn == DynInit /\ [][DynNext]_vars

(***************************************************************************)
(* Repeated calls on one model object: SpecPure.                           *)
(***************************************************************************)
MaxCalls == 3

\* the caller's lists: the apparition times, and one duration or one
\* duration for each time
PureLists ==
    {l \in {s \in SeqsUpTo(PulseTimeSet, MaxStim) : IsStrictlyAscending(s)}
            \X SeqsUpTo(PulseDurationSet, MaxPulseList) :
        Len(l[2]) \in {1, Len(l[1])}}

\* a variant that keeps the broadcast list: it writes it into the caller's
\* list and into self.impulse_time
after_dynamics_in_place(self, impulse_time, stim_apparition) ==
    [self |-> [self EXCEPT !.impulse_time = PyList(Broadcast(impulse_time, stim_apparition))],
     impulse_time |-> Broadcast(impulse_time, stim_apparition),
     stim_prev |-> stim_apparition]

\* ding2007.py:101-174, 215-293: what a call of dynamics, system_dynamics or
\* a_calculation leaves behind.  None of them assigns an attribute of the
\* model; `impulse_time * len(stim_apparition)` binds a new list to the local
\* name, and a_calculation only rebinds its local impulse_time.
after_dynamics(self, impulse_time, stim_apparition) ==
    [self |-> self, impulse_time |-> impulse_time, stim_prev |-> stim_apparition]

PureInit ==
    /\ NoConstruction
    /\ NoOcpCall
    /\ NoLibCall
    /\ x_init = <<>>
    /\ call = "ding2007"
    /\ time = 0
    /\ states = <<>>
    /\ returned = FALSE
    /\ a = Term("none", <<>>)
    /\ dxdt = NoResult
    /\ model_attrs \in {DefaultAttrs, IdentifiedAttrs}
    /\ \E l \in PureLists : stim_prev = l[1] /\ pulse_parameters = l[2]
    /\ history = <<>>

\* one more call of DingModelPulseDurationFrequency.dynamics on the model
PureDynamics ==
    /\ call = "ding2007"
    /\ Len(history) < MaxCalls
    /\ \E t \in {0, 250000}, x \in StateSet :
           LET r == ding2007_dynamics(model_attrs, t, SubSeq(x, 1, 2), pulse_parameters,
                                      stim_prev)
               after == after_dynamics(model_attrs, pulse_parameters, stim_prev)
           IN  /\ time' = t
               /\ states' = SubSeq(x, 1, 2)
               /\ dxdt' = r
               /\ history' = Append(history,
                      [fn |-> "dynamics", self |-> model_attrs, time |-> t,
                       states |-> SubSeq(x, 1, 2), impulse_time |-> pulse_parameters,
                       stim_prev |-> stim_prev, result |-> r])
               /\ model_attrs' = after.self
               /\ pulse_parameters' = after.impulse_time
               /\ stim_prev' = after.stim_prev
    /\ returned' = TRUE
    /\ UNCHANGED <<call, a>>
    /\ UNCHANGED <<ivpVars, ocpVars, x_init, libVars>>

\* one more call of model.a_calculation on the model
PureACalculation ==
    /\ call = "ding2007"
    /\ Len(history) < MaxCalls
    /\ \E t \in {0, 250000} :
           LET r == a_calculation(model_attrs, model_attrs.a_scale, pulse_parameters, t,
                                  stim_prev)
               after == after_dynamics(model_attrs, pulse_parameters, stim_prev)
           IN  /\ time' = t
               /\ a' = r
               /\ history' = Append(history,
                      [fn |-> "a_calculation", self |-> model_attrs, time |-> t,
                       states |-> <<>>, impulse_time |-> pulse_parameters,
                       stim_prev |-> stim_prev, result |-> r])
               /\ model_attrs' = after.self
               /\ pulse_parameters' = after.impulse_time
               /\ stim_prev' = after.stim_prev
    /\ returned' = TRUE
    /\ UNCHANGED <<call, states, dxdt>>
    /\ UNCHANGED <<ivpVars, ocpVars, x_init, libVars>>

PureNext == PureDynamics \/ PureACalculation

SpecPure == PureInit /\ [][PureNext]_vars

(***************************************************************************)
(* OcpFes.prepare_ocp: SpecOcp.                                            *)
(***************************************************************************)
\* a list that holds an element of another type than int or float
PyMixedList(l, type) == PyVal("list", 0, type, l)
\* a list of np.ndarray of the given lengths
PyArrayList(lengths) == PyVal("list", 0, "ndarray", lengths)
\* an ObjectiveList whose elements have the given type
PyObjectiveList(type) == PyVal("ObjectiveList", 0, type, <<>>)
\* ControlType.CONSTANT / ControlType.LINEAR_CONTINUOUS
PyControlType(name) == PyVal("ControlType", 0, name, <<>>)

\* a dictionary argument of prepare_ocp with the keys the caller supplies
Dict4(k1, v1, k2, v2, k3, v3, k4, v4) ==
    WithKey(WithKey(WithKey(WithKey(EmptyDict, k1, v1), k2, v2), k3, v3), k4, v4)

\* the call of the examples: prepare_ocp(model=DingModelFrequency(),
\* stim_time=[0, 0.1, 0.2], n_shooting=3, final_time=0.3), with the defaults
\* of the signature for the arguments left out, the attributes of the model
\* _sanity_check and _build_constraints read stored next to the arguments
ValidOcp ==
    [k \in {"model", "stim_time", "n_shooting", "final_time", "pulse_event",
            "pulse_duration", "pulse_intensity", "objective", "use_sx", "ode_solver",
            "n_threads", "control_type", "model.pd0", "model.min_pulse_intensity",
            "model._sum_stim_truncation"} |->
        CASE k = "model" -> PyModel("ding2003")
          [] k = "stim_time" -> PyList(RegularTrain(MaxStim))
          [] k = "n_shooting" -> PyInt(MaxStim)
          [] k = "final_time" -> PyFloat(MaxStim * 100000)
          [] k = "use_sx" -> PyBool(TRUE)
          [] k = "ode_solver" -> PyOdeSolver("RK4")
          [] k = "n_threads" -> PyInt(1)
          [] k = "control_type" -> PyControlType("CONSTANT")
          [] k = "model.pd0" -> PyFloat(Pd0)
          [] k = "model.min_pulse_intensity" -> PyFloat(MinPulseIntensity)
          [] OTHER -> PyNone]

\* ValidOcp with the given model and pulse dictionaries
OcpWith(model, pulse_event, pulse_duration, pulse_intensity) ==
    DictSet(DictSet(DictSet(DictSet(ValidOcp, "model", model), "pulse_event", pulse_event),
                    "pulse_duration", pulse_duration), "pulse_intensity", pulse_intensity)

\* OcpFes.prepare_ocp(**input) is called
OcpCall(input) ==
    /\ input_dict = input
    /\ ocp_dicts = EmptyDict
    /\ ocp_pc = "fill_dict"
    /\ ocp_raised = NoExc
    /\ ocp_built = <<>>
    /\ ocp_evaluated = <<>>
    /\ ocp_parameters = <<>>
    /\ constraints = NoConstraints
    /\ NoConstruction
    /\ NoModelCall
    /\ NoLibCall
    /\ x_init = <<>>

\* prepare_ocp with a model, n_shooting, final_time and pulse mode of any type
OcpInitGeneral ==
    \E m \in {PyModel("ding2003"), PyModel("ding2003_integrate"), PyVal("FesMskModel", 0, "", <<>>),
              PyNone, PyStr("ding2003"), PyFesModelClass},
       ns \in {PyInt(MaxStim), PyInt(0), PyInt(-1), PyFloat(MaxStim), PyBool(TRUE), PyNone,
               PyStr("3")},
       ft \in {PyFloat(MaxStim * 100000), PyInt(0), PyInt(-1), PyFloat(-100000), PyNone,
               PyStr("0.3")},
       mode \in {Absent} \cup PulseModes :
        OcpCall(DictSet(DictSet(
            OcpWith(m, Dict4("pulse_mode", mode, "min", Absent, "max", Absent,
                             "bimapping", Absent), PyNone, PyNone),
            "n_shooting", ns), "final_time", ft))

\* prepare_ocp with a pulse_event dictionary of any content
OcpInitEvent ==
    \E fr \in {Absent, PyInt(10), PyInt(0), PyInt(-5), PyFloat(33), PyStr("10"), PyNone},
       min \in {Absent, PyNone, PyInt(0), PyFloat(10000), PyStr("0.01")},
       max \in {Absent, PyNone, PyInt(0), PyFloat(100000)},
       bi \in {Absent, PyBool(TRUE), PyBool(FALSE), PyInt(1), PyStr("True"), PyNone},
       mode \in {Absent, PyStr("doublet")} :
        OcpCall(OcpWith(PyModel("ding2003"),
                        WithKey(Dict4("frequency", fr, "min", min, "max", max, "bimapping", bi),
                                "pulse_mode", mode),
                        PyNone, PyNone))

\* the values a caller gives as a pulse duration (nanoseconds) or a pulse
\* intensity (1/100 mA): below the minimum, the minimum, above it
OcpPulseScalars(S) ==
    {Absent, PyNone, PyInt(0), PyFloat(0), PyStr("0.0003")}
        \cup {PyFloat(x) : x \in S} \cup {PyFloat(-x) : x \in S}

OcpPulseLists(S) ==
    {PyList(l) : l \in SeqsUpTo(S \cup {0}, MaxPulseList)}
        \cup {PyList(<<>>), PyMixedList(<<0>>, "str")}

OcpPulseBounds(S) ==
    {Absent, PyNone, PyInt(0), PyStr("0.0003")} \cup {PyFloat(x) : x \in S}

PulseBimappings == {Absent, PyBool(TRUE), PyNone, PyInt(1)}

\* prepare_ocp with a pulse-duration model
OcpInitDuration ==
    \/ \E pd0 \in {PyFloat(Pd0), PyNone}, fixed \in OcpPulseScalars(DurationSet),
          min \in OcpPulseBounds(DurationSet), max \in {Absent, PyFloat(600000), PyFloat(Pd0)},
          bi \in PulseBimappings :
           OcpCall(DictSet(
               OcpWith(PyModel("ding2007"), PyNone,
                       Dict4("fixed", fixed, "min", min, "max", max, "bimapping", bi), PyNone),
               "model.pd0", pd0))
    \/ \E pd0 \in {PyFloat(Pd0), PyNone}, fixed \in OcpPulseLists(DurationSet),
          min \in {Absent, PyFloat(300000)}, max \in {Absent, PyFloat(600000)} :
           OcpCall(DictSet(
               OcpWith(PyModel("ding2007"), PyNone,
                       Dict4("fixed", fixed, "min", min, "max", max, "bimapping", Absent),
                       PyNone),
               "model.pd0", pd0))
    \/ OcpCall(OcpWith(PyModel("ding2007"), PyNone, PyNone, PyNone))

\* prepare_ocp with a pulse-intensity model
OcpInitIntensity ==
    \/ \E mi \in {PyFloat(MinPulseIntensity), PyNone}, fixed \in OcpPulseScalars(IntensitySet),
          min \in OcpPulseBounds(IntensitySet), max \in {Absent, PyFloat(13000), PyFloat(10)},
          bi \in PulseBimappings :
           OcpCall(DictSet(
               OcpWith(PyModel("hmed2018"), PyNone, PyNone,
                       Dict4("fixed", fixed, "min", min, "max", max, "bimapping", bi)),
               "model.min_pulse_intensity", mi))
    \/ \E mi \in {PyFloat(MinPulseIntensity), PyNone}, fixed \in OcpPulseLists(IntensitySet),
          min \in {Absent, PyFloat(5000)}, max \in {Absent, PyFloat(13000)} :
           OcpCall(DictSet(
               OcpWith(PyModel("hmed2018"), PyNone, PyNone,
                       Dict4("fixed", fixed, "min", min, "max", max, "bimapping", Absent)),
               "model.min_pulse_intensity", mi))

\* prepare_ocp with an objective dictionary and solver settings of any type
OcpInitObjective ==
    \E ft \in {Absent, PyNone, PyStr("force"), PyList(<<1, 2>>), PyArrayList(<<3, 3>>),
               PyArrayList(<<3, 4>>), PyArrayList(<<3>>), PyArrayList(<<3, 3, 3>>)},
       en \in {Absent, PyInt(270), PyInt(0), PyStr("270")},
       cu \in {Absent, PyStr("custom"), PyObjectiveList("Objective"), PyObjectiveList("str")},
       os \in {PyOdeSolver("RK4"), PyNone, PyStr("RK4")},
       sx \in {PyBool(FALSE), PyInt(1), PyNone},
       nt \in {PyInt(4), PyBool(TRUE), PyFloat(100), PyStr("1")} :
        OcpCall(DictSet(DictSet(DictSet(DictSet(ValidOcp,
            "objective", Dict4("force_tracking", ft, "end_node_tracking", en, "custom", cu,
                               "cycling", Absent)),
            "ode_solver", os), "use_sx", sx), "n_threads", nt))

\* model._sum_stim_truncation: None, or the number of pulses to keep
TruncationSet == {PyNone} \cup {PyInt(k) : k \in 0..MaxStim}

\* prepare_ocp with stimulation times anywhere on the grid of nodes
OcpInitConstraints ==
    \E m \in {PyModel("ding2003"), PyModel("ding2007"), PyModel("ding2003_integrate")},
       st \in StimTimeLists, ns \in {MaxStim, 10}, ft \in {50000, 100000},
       ct \in {"CONSTANT", "LINEAR_CONTINUOUS"}, k \in TruncationSet :
        OcpCall(DictSet(DictSet(DictSet(DictSet(DictSet(
            OcpWith(m, PyNone,
                    Dict4("fixed", PyFloat(300000), "min", Absent, "max", Absent,
                          "bimapping", Absent),
                    PyNone),
            "stim_time", PyList(st)), "n_shooting", PyInt(ns)), "final_time", PyFloat(ft)),
            "control_type", PyControlType(ct)), "model._sum_stim_truncation", k))

OcpInit ==
    \/ OcpInitGeneral
    \/ OcpInitEvent
    \/ OcpInitDuration
    \/ OcpInitIntensity
    \/ OcpInitObjective
    \/ OcpInitConstraints

\* a variant in which prepare_ocp goes on after an exception
OcpGotoNext(exc, next) ==
    /\ ocp_raised' = exc
    /\ ocp_pc' = next

\* the exception exc ends prepare_ocp, or it goes on with next
OcpGoto(exc, next) ==
    /\ ocp_raised' = exc
    /\ ocp_pc' = IF exc = NoExc THEN next ELSE "raised"

\* _prepare_optimization_problem lines 45-50
OcpFillDict ==
    /\ ocp_pc = "fill_dict"
    /\ ocp_dicts' = fill_dict(input_dict["pulse_event"], input_dict["pulse_duration"],
                              input_dict["pulse_intensity"], input_dict["objective"])
    /\ ocp_built' = Append(ocp_built, "_fill_dict")
    /\ ocp_pc' = "sanity_check"
    /\ UNCHANGED <<input_dict, ocp_raised, ocp_evaluated, ocp_parameters, constraints>>
    /\ UNCHANGED <<ivpVars, dynVars, x_init, libVars>>

\* _prepare_optimization_problem lines 52-63
OcpSanityCheck ==
    /\ ocp_pc = "sanity_check"
    /\ LET r == sanity_check(input_dict, ocp_dicts)
       IN  /\ ocp_evaluated' = r.evaluated
           /\ OcpGoto(r.raised, "build_parameters")
    /\ ocp_built' = Append(ocp_built, "_sanity_check")
    /\ UNCHANGED <<input_dict, ocp_dicts, ocp_parameters, constraints>>
    /\ UNCHANGED <<ivpVars, dynVars, x_init, libVars>>

\* _prepare_optimization_problem lines 65-77
OcpBuildParameters ==
    /\ ocp_pc = "build_parameters"
    /\ LET r == ocp_build_parameters(input_dict["model"], input_dict["stim_time"], ocp_dicts)
       IN  /\ ocp_parameters' = r.parameters
           /\ OcpGoto(r.raised, "declare_dynamics")
    /\ ocp_built' = Append(ocp_built, "_build_parameters")
    /\ UNCHANGED <<input_dict, ocp_dicts, ocp_evaluated, constraints>>
    /\ UNCHANGED <<ivpVars, dynVars, x_init, libVars>>

\* _prepare_optimization_problem lines 79-80: _declare_dynamics, _set_bounds
OcpDeclareDynamics ==
    /\ ocp_pc = "declare_dynamics"
    /\ ocp_built' = ocp_built \o <<"_declare_dynamics", "_set_bounds">>
    /\ ocp_pc' = "build_constraints"
    /\ UNCHANGED <<input_dict, ocp_dicts, ocp_raised, ocp_evaluated, ocp_parameters,
                   constraints>>
    /\ UNCHANGED <<ivpVars, dynVars, x_init, libVars>>

\* _prepare_optimization_problem lines 82-87
OcpBuildConstraints ==
    /\ ocp_pc = "build_constraints"
    /\ LET r == IF input_dict["model"] = PyModel("ding2003_integrate") THEN NoConstraints
                ELSE build_constraints(input_dict["model"], input_dict["n_shooting"].num,
                                       input_dict["final_time"].num,
                                       input_dict["stim_time"].lst,
                                       input_dict["control_type"].str,
                                       input_dict["model._sum_stim_truncation"])
       IN  /\ constraints' = r
           /\ OcpGoto(r.raised, "set_objective")
    /\ ocp_built' = Append(ocp_built, "_build_constraints")
    /\ UNCHANGED <<input_dict, ocp_dicts, ocp_evaluated, ocp_parameters>>
    /\ UNCHANGED <<ivpVars, dynVars, x_init, libVars>>

\* _prepare_optimization_problem line 89 and the dictionary it returns
OcpSetObjective ==
    /\ ocp_pc = "set_objective"
    /\ ocp_built' = Append(ocp_built, "_set_objective")
    /\ ocp_pc' = "construct"
    /\ UNCHANGED <<input_dict, ocp_dicts, ocp_raised, ocp_evaluated, ocp_parameters,
                   constraints>>
    /\ UNCHANGED <<ivpVars, dynVars, x_init, libVars>>

\* prepare_ocp lines 184-203
OcpConstruct ==
    /\ ocp_pc = "construct"
    /\ ocp_built' = Append(ocp_built, "OptimalControlProgram")
    /\ ocp_pc' = "done"
    /\ UNCHANGED <<input_dict, ocp_dicts, ocp_raised, ocp_evaluated, ocp_parameters,
                   constraints>>
    /\ UNCHANGED <<ivpVars, dynVars, x_init, libVars>>

OcpNext ==
    \/ OcpFillDict
    \/ OcpSanityCheck
    \/ OcpBuildParameters
    \/ OcpDeclareDynamics
    \/ OcpBuildConstraints
    \/ OcpSetObjective
    \/ OcpConstruct

SpecOcp == OcpInit /\ [][OcpNext]_vars

(***************************************************************************)
(* The bimapping constraint functions of CustomConstraint: SpecConstraint. *)
(***************************************************************************)
RuntimeError(msg) == Exc("RuntimeError", msg)

OnlyOnePhase == "There is only one phase, the bimapping constraint is not possible"

\* the most phases of a program
MaxPhases == 3

\* the value of one parameter, or the final time of one phase, per phase
PhaseValues(n) == [1..n -> {200, 300}]

\* the expression statement `exc` under its condition: the exception is
\* built and dropped
BuildIf(condition, exc) == NoExc

\* custom_constraints.py:13-14, 25-26, 34-35
phase_check(n_phases) == BuildIf(n_phases <= 1, RuntimeError(OnlyOnePhase))

\* what a constraint function does: first is the value of the first phase,
\* current the value of the controller's phase
constraint_result(fn, ctrl, first, current) ==
    IF phase_check(ctrl.n_phases) # NoExc
    THEN [fn |-> fn, raised |-> phase_check(ctrl.n_phases), value |-> 0]
    ELSE [fn |-> fn, raised |-> NoExc, value |-> first - current]

\* CustomConstraint.equal_to_first_pulse_interval_time
equal_to_first_pulse_interval_time(ctrl) ==
    constraint_result("equal_to_first_pulse_interval_time", ctrl,
                      ctrl.phase_tf[1], ctrl.phase_tf[ctrl.phase_idx + 1])

\* CustomConstraint.equal_to_first_pulse_duration
equal_to_first_pulse_duration(ctrl) ==
    constraint_result("equal_to_first_pulse_duration", ctrl,
                      ctrl.pulse_duration[1], ctrl.pulse_duration[ctrl.phase_idx + 1])

\* CustomConstraint.equal_to_first_pulse_intensity
equal_to_first_pulse_intensity(ctrl) ==
    constraint_result("equal_to_first_pulse_intensity", ctrl,
                      ctrl.pulse_intensity[1], ctrl.pulse_intensity[ctrl.phase_idx + 1])

\* a controller of one phase of a program of n phases
ConstraintInit ==
    /\ NoConstruction
    /\ NoModelCall
    /\ NoOcpCall
    /\ x_init = <<>>
    /\ NoMskModel
    /\ NoSerialize
    /\ NoParameterCall
    /\ penalty = NotCalled
    /\ \E n \in 1..MaxPhases :
           \E idx \in 0..(n - 1), tf \in PhaseValues(n), pd \in PhaseValues(n),
              pi \in PhaseValues(n) :
               controller = [n_phases |-> n, phase_idx |-> idx, phase_tf |-> tf,
                             pulse_duration |-> pd, pulse_intensity |-> pi]

EqualToFirstPulseIntervalTime ==
    /\ controller.n_phases >= 1
    /\ penalty = NotCalled
    /\ penalty' = equal_to_first_pulse_interval_time(controller)
    /\ UNCHANGED <<ivpVars, dynVars, x_init, ocpVars, controller, mskVars, serializeVars,
                   parameterVars>>

EqualToFirstPulseDuration ==
    /\ controller.n_phases >= 1
    /\ penalty = NotCalled
    /\ penalty' = equal_to_first_pulse_duration(controller)
    /\ UNCHANGED <<ivpVars, dynVars, x_init, ocpVars, controller, mskVars, serializeVars,
                   parameterVars>>

EqualToFirstPulseIntensity ==
    /\ controller.n_phases >= 1
    /\ penalty = NotCalled
    /\ penalty' = equal_to_first_pulse_intensity(controller)
    /\ UNCHANGED <<ivpVars, dynVars, x_init, ocpVars, controller, mskVars, serializeVars,
                   parameterVars>>

ConstraintNext ==
    \/ EqualToFirstPulseIntervalTime
    \/ EqualToFirstPulseDuration
    \/ EqualToFirstPulseIntensity

SpecConstraint == ConstraintInit /\ [][ConstraintNext]_vars

(***************************************************************************)
(* FesMskModel: SpecMsk.                                                   *)
(***************************************************************************)
\* a muscle model of the given family and muscle name
PyMuscle(family, muscle_name) ==
    [ty |-> "model", num |-> 0, str |-> family, lst |-> <<>>, muscle_name |-> muscle_name]

\* a list or a tuple of Python values
PySeq(ty, items) == [ty |-> ty, items |-> items]

\* `for x in v` can run: v is a list or a tuple
IsIterable(v) == v.ty \in {"list", "tuple"}

AttributeError(msg) == Exc("AttributeError", msg)

MusclesModelTypeError ==
    TypeError("The current model type used is {type(muscles_model)}, it must be a FesModel type."
              \o "Current available models are: DingModelFrequency, DingModelFrequencyWithFatigue,"
              \o "DingModelPulseWidthFrequency, DingModelPulseWidthFrequencyWithFatigue,"
              \o "DingModelPulseIntensityFrequency, DingModelPulseIntensityFrequencyWithFatigue")

\* FesMskModel._model_sanity
model_sanity(muscles_model, activate_force_length_relationship, activate_force_velocity_relationship) ==
    IF ~IsInstanceList(muscles_model)
    THEN IF ~IsIterable(muscles_model)
         THEN TypeError("'" \o muscles_model.ty \o "' object is not iterable")
         ELSE IF \E i \in DOMAIN muscles_model.items :
                     ~IsInstanceFesModel(muscles_model.items[i])
         THEN MusclesModelTypeError
         ELSE TypeError("The given muscles_model must be a list of FesModel")
    ELSE IF ~IsInstanceBool(activate_force_length_relationship)
    THEN TypeError("The activate_force_length_relationship must be a boolean")
    ELSE IF ~IsInstanceBool(activate_force_velocity_relationship)
    THEN TypeError("The activate_force_velocity_relationship must be a boolean")
    ELSE NoExc

\* the coefficient a muscle is given: computed for the muscle, or 1
Coefficient(fn, muscle_name) == Term(fn, <<muscle_name>>)
One == Term("1", <<>>)

\* dynamical_model.py:213-251, for one muscle model of the loop: the
\* keyword arguments of muscle_model.dynamics
muscle_dynamics_call(self, muscle_model) ==
    LET muscle_force_length_coeff ==
            IF Truthy(self.activate_force_velocity_relationship)
            THEN Coefficient("muscle_force_length_coefficient", muscle_model.muscle_name)
            ELSE One
        muscle_force_velocity_coeff ==
            IF Truthy(self.activate_force_velocity_relationship)
            THEN Coefficient("muscle_force_velocity_coefficient", muscle_model.muscle_name)
            ELSE One
    IN  [fes_model |-> muscle_model,
         force_length_relationship |-> muscle_force_length_coeff,
         force_velocity_relationship |-> muscle_force_velocity_coeff]

\* FesMskModel.muscles_joint_torque: the calls of muscle_model.dynamics, in
\* order; an element with no muscle_name ends the loop with AttributeError
muscles_joint_torque(self, muscle_models) ==
    IF \E i \in DOMAIN muscle_models : ~IsInstanceFesModel(muscle_models[i])
    THEN [raised |-> AttributeError("muscle_name"), calls |-> <<>>]
    ELSE [raised |-> NoExc,
          calls |-> [i \in DOMAIN muscle_models |-> muscle_dynamics_call(self, muscle_models[i])]]

\* the muscle models of a call
MuscleSet == {PyMuscle("ding2003", "BIClong"), PyMuscle("ding2007", "TRIlong")}

\* values given as muscles_model
MusclesModelArgs ==
    {PySeq(ty, items) :
        ty \in {"list", "tuple"},
        items \in {<<>>} \cup SeqsUpTo(MuscleSet \cup {PyInt(1)}, 2)}
    \cup {PyNone, PyModel("ding2003")}

\* values given as a flag
FlagArgs == {PyBool(TRUE), PyBool(FALSE), PyInt(1), PyNone}

MskInit ==
    /\ NoConstruction
    /\ NoModelCall
    /\ NoOcpCall
    /\ NoConstraintCall
    /\ NoSerialize
    /\ NoParameterCall
    /\ x_init = <<>>
    /\ msk_pc = "__init__"
    /\ msk_raised = NoExc
    /\ muscle_calls = <<>>
    /\ \E m \in MusclesModelArgs, fl \in FlagArgs, fv \in FlagArgs :
           msk_args = [muscles_model |-> m,
                       activate_force_length_relationship |-> fl,
                       activate_force_velocity_relationship |-> fv]

\* FesMskModel.__init__: _model_sanity, then the attributes are the arguments
MskConstruct ==
    /\ msk_pc = "__init__"
    /\ msk_raised' = model_sanity(msk_args.muscles_model,
                                  msk_args.activate_force_length_relationship,
                                  msk_args.activate_force_velocity_relationship)
    /\ msk_pc' = IF msk_raised' = NoExc THEN "built" ELSE "raised"
    /\ UNCHANGED <<ivpVars, dynVars, x_init, ocpVars, constraintVars, serializeVars,
                   parameterVars>>
    /\ UNCHANGED <<msk_args, muscle_calls>>

\* muscle_dynamic calls muscles_joint_torque with the model's muscle models
MusclesJointTorque ==
    /\ msk_pc = "built"
    /\ LET r == muscles_joint_torque(msk_args, msk_args.muscles_model.items)
       IN  /\ muscle_calls' = r.calls
           /\ msk_raised' = r.raised
           /\ msk_pc' = IF r.raised = NoExc THEN "evaluated" ELSE "raised"
    /\ UNCHANGED <<ivpVars, dynVars, x_init, ocpVars, constraintVars, serializeVars,
                   parameterVars>>
    /\ UNCHANGED msk_args

MskNext == MskConstruct \/ MusclesJointTorque

SpecMsk == MskInit /\ [][MskNext]_vars

(***************************************************************************)
(* DingModelPulseDurationFrequency: setters and serialize, SpecSerialize.  *)
(***************************************************************************)
\* DingModelPulseDurationFrequency.__init__(**kwargs): the parameters tauc,
\* a_rest, tau1_rest, km_rest, tau2, pd0, pdt, a_scale are accepted and the
\* attributes are assigned the numbers of lines 55-61
ding2007_init(kwargs) == DefaultAttrs

\* DingModelPulseDurationFrequency.serialize
ding2007_serialize(self) ==
    [cls |-> "DingModelPulseDurationFrequency",
     kwargs |-> [tauc |-> self.tauc, a_rest |-> self.a_rest, tau1_rest |-> self.tau1_rest,
                 km_rest |-> self.km_rest, tau2 |-> self.tau2, a_scale |-> self.a_scale,
                 pd0 |-> self.pd0, pdt |-> self.pdt]]

\* the values a setter is given
SetAScaleArgs == {AScale - 20, AScale, AScale + 80, AScale + 580}
SetPd0Args == {Pd0 - 405, Pd0, Pd0 + 595, Pd0 + 1595}
SetPdtArgs == {Pdt - 138, Pdt, Pdt + 862}

SerializeInit ==
    /\ NoConstruction
    /\ NoOcpCall
    /\ NoConstraintCall
    /\ NoMskModel
    /\ NoSerialize
    /\ NoParameterCall
    /\ x_init = <<>>
    /\ call = "ding2007"
    /\ time = 0
    /\ stim_prev = <<>>
    /\ pulse_parameters = <<>>
    /\ states = <<>>
    /\ returned = FALSE
    /\ a = Term("none", <<>>)
    /\ dxdt = NoResult
    /\ history = <<>>
    /\ model_attrs = DefaultAttrs

\* what a step of SpecSerialize leaves alone, the model object apart
SerializeFrame ==
    /\ UNCHANGED <<ivpVars, x_init, ocpVars, constraintVars, mskVars, parameterVars>>
    /\ UNCHANGED <<call, time, stim_prev, pulse_parameters, states, returned, a, dxdt, history>>

\* model.set_a_scale(model, a_scale)
SetAScale ==
    /\ serialized = <<>>
    /\ \E v \in SetAScaleArgs : model_attrs' = [model_attrs EXCEPT !.a_scale = v]
    /\ UNCHANGED serializeVars
    /\ SerializeFrame

\* model.set_pd0(model, pd0)
SetPd0 ==
    /\ serialized = <<>>
    /\ \E v \in SetPd0Args : model_attrs' = [model_attrs EXCEPT !.pd0 = v]
    /\ UNCHANGED serializeVars
    /\ SerializeFrame

\* model.set_pdt(model, pdt)
SetPdt ==
    /\ serialized = <<>>
    /\ \E v \in SetPdtArgs : model_attrs' = [model_attrs EXCEPT !.pdt = v]
    /\ UNCHANGED serializeVars
    /\ SerializeFrame

\* cls, kwargs = model.serialize()
Serialize ==
    /\ serialized = <<>>
    /\ serialized' = ding2007_serialize(model_attrs)
    /\ UNCHANGED <<model_attrs, rebuilt>>
    /\ SerializeFrame

\* cls(**kwargs)
Rebuild ==
    /\ serialized # <<>>
    /\ rebuilt = <<>>
    /\ rebuilt' = ding2007_init(serialized.kwargs)
    /\ UNCHANGED <<model_attrs, serialized>>
    /\ SerializeFrame

SerializeNext == SetAScale \/ SetPd0 \/ SetPdt \/ Serialize \/ Rebuild

SpecSerialize == SerializeInit /\ [][SerializeNext]_vars

(***************************************************************************)
(* get_pulse_duration_parameters: SpecParameters.  A text is the sequence  *)
(* of its pieces, and `x in text` is the search of one sequence in the     *)
(* other.                                                                  *)
(***************************************************************************)
\* needle in text
Contains(text, needle) ==
    \E i \in 1..(Len(text) - Len(needle) + 1) :
        SubSeq(text, i, i + Len(needle) - 1) = needle

\* nlp.parameters.scaled.cx[j].str(): the name of the parameter, made of
\* its kind and, with a muscle, "_" and the muscle name, then its index
CxStr(parameter) ==
    <<parameter.kind>>
    \o (IF parameter.muscle = <<>> THEN <<>> ELSE <<"_">> \o parameter.muscle)
    \o <<"_", parameter.index>>

\* ding2007.py:206-212: the loop over j in range(parameters.shape[0]), on
\* the parameters from j on (1-based here); muscle is <<>> for None
RECURSIVE get_pulse_duration_parameters(_, _, _)
get_pulse_duration_parameters(parameters, muscle, j) ==
    IF j > Len(parameters) THEN <<>>
    ELSE LET kept == IF muscle # <<>>
                     THEN Contains(CxStr(parameters[j]), <<"pulse_duration", "_">> \o muscle)
                     ELSE Contains(CxStr(parameters[j]), <<"pulse_duration">>)
         IN  (IF kept THEN <<parameters[j]>> ELSE <<>>)
             \o get_pulse_duration_parameters(parameters, muscle, j + 1)

\* the most parameters of a phase
MaxParameters == 3

\* muscle names, one a prefix of another
MuscleNameSet == {<<"BIC">>, <<"BIC", "long">>, <<"TRI">>}

\* the parameters a phase can hold
ParameterSet ==
    {[kind |-> k, muscle |-> m, index |-> "0"] :
        k \in {"pulse_duration", "pulse_intensity"}, m \in MuscleNameSet \cup {<<>>}}

ParametersInit ==
    /\ NoConstruction
    /\ NoModelCall
    /\ NoOcpCall
    /\ NoConstraintCall
    /\ NoMskModel
    /\ NoSerialize
    /\ x_init = <<>>
    /\ pulse_duration_parameters = NotReturned
    /\ muscle_arg \in MuscleNameSet \cup {<<>>}
    /\ nlp_parameters \in {l \in SeqsUpTo(ParameterSet, MaxParameters) :
                              \A i, j \in DOMAIN l : i # j => l[i] # l[j]}

\* model.get_pulse_duration_parameters(nlp, parameters, muscle_name)
GetPulseDurationParameters ==
    /\ pulse_duration_parameters = NotReturned
    /\ nlp_parameters # <<>>
    /\ pulse_duration_parameters'
           = [returned |-> TRUE,
              list |-> get_pulse_duration_parameters(nlp_parameters, muscle_arg, 1)]
    /\ UNCHANGED <<ivpVars, dynVars, x_init, ocpVars, constraintVars, mskVars, serializeVars>>
    /\ UNCHANGED <<nlp_parameters, muscle_arg>>

ParametersNext == GetPulseDurationParameters

SpecParameters == ParametersInit /\ [][ParametersNext]_vars

(***************************************************************************)
(* Properties.                                                             *)
(***************************************************************************)
Executed(step) == step \in Range(steps)

MinPulseDurationError ==
    ValueError("Pulse duration must be greater than minimum pulse duration")
MinPulseIntensityError ==
    ValueError("Pulse intensity must be greater than minimum pulse intensity")

\* the scalar, or at least one element of the list, is strictly below m
BelowMinimum(v, m) ==
    IF v.ty = "list" THEN \E i \in DOMAIN v.lst : v.lst[i] < m ELSE v.num < m

\* dictionaries_check has run and reached the block of the pulse value v
PulseValueChecked(v) ==
    /\ Executed("dictionaries_check")
    /\ IsInstanceInt(fes_parameters["n_stim"])
    /\ v.ty \in {"int", "float", "list"}

\* C1: with a pulse-duration model, construction raises the minimum pulse
\* duration ValueError exactly when the scalar pulse_duration, or at least one
\* element of the list, is strictly below pd0 (a value equal to pd0 passes);
\* with a pulse-intensity model the minimum pulse intensity ValueError is
\* raised exactly when the scalar or an element is strictly below
\* min_pulse_intensity().
C1_MinimumPulseValueRejected ==
    /\ (/\ Executed("dictionaries_check")
        /\ IsPulseDurationModel(fes_parameters["model"])
        /\ PulseValueChecked(fes_parameters["pulse_duration"]))
       => (raised = MinPulseDurationError
              <=> BelowMinimum(fes_parameters["pulse_duration"], Pd0))
    /\ (/\ Executed("dictionaries_check")
        /\ IsPulseIntensityModel(fes_parameters["model"])
        /\ PulseValueChecked(fes_parameters["pulse_intensity"]))
       => (raised = MinPulseIntensityError
              <=> BelowMinimum(fes_parameters["pulse_intensity"], MinPulseIntensity))
    /\ raised = MinPulseDurationError => IsPulseDurationModel(fes_parameters["model"])
    /\ raised = MinPulseIntensityError => IsPulseIntensityModel(fes_parameters["model"])

\* a list whose first duration equals pd0 is rejected for a later element
C1_Witness ==
    /\ raised = MinPulseDurationError
    /\ fes_parameters["pulse_duration"].ty = "list"
    /\ fes_parameters["pulse_duration"].lst[1] = Pd0

PulseDurationLengthError ==
    ValueError("pulse_duration list must have the same length as n_stim")
PulseIntensityLengthError ==
    ValueError("pulse_intensity list must have the same length as n_stim")

\* the caller passed no n_stim, or the length of the stim_time it passed
NStimConsistent ==
    \/ ~HasKey(fes_arg, "n_stim")
    \/ /\ HasKey(fes_arg, "stim_time")
       /\ fes_arg["n_stim"] = PyInt(Len(fes_arg["stim_time"].lst))

\* C2: with a list of per-pulse values, construction raises the list length
\* ValueError exactly when the list length differs from the number of
\* stimulation times of stim_time after the pulse-mode expansion, also when
\* the caller passed no n_stim.  (Stated for callers that pass no n_stim or
\* the length of their stim_time.)
C2_ListLengthAgainstStimTime ==
    /\ (/\ Executed("build_parameters")
        /\ NStimConsistent
        /\ IsPulseDurationModel(fes_parameters["model"])
        /\ fes_parameters["pulse_duration"].ty = "list")
       => (raised = PulseDurationLengthError
              <=> Len(fes_parameters["pulse_duration"].lst) # Len(stim_time))
    /\ (/\ Executed("build_parameters")
        /\ NStimConsistent
        /\ IsPulseIntensityModel(fes_parameters["model"])
        /\ fes_parameters["pulse_intensity"].ty = "list")
       => (raised = PulseIntensityLengthError
              <=> Len(fes_parameters["pulse_intensity"].lst) # Len(stim_time))

\* the highest index i with t_stim_prev[i] <= t
LatestPulse(t_stim_prev, t) ==
    CHOOSE i \in DOMAIN t_stim_prev :
        /\ t_stim_prev[i] <= t
        /\ \A j \in DOMAIN t_stim_prev : t_stim_prev[j] <= t => j <= i

\* the inputs C3 speaks of: an ascending list of times, as many durations,
\* none of them zero, and a time not before the first pulse
C3_Inputs ==
    /\ call = "a_calculation"
    /\ Len(stim_prev) >= 1
    /\ IsSorted(stim_prev)
    /\ Len(pulse_parameters) = Len(stim_prev)
    /\ \A i \in DOMAIN pulse_parameters : pulse_parameters[i] # 0
    /\ stim_prev[1] <= time

\* C3: on such inputs a_calculation returns
\* a_scale * (1 - exp(-(d - pd0)/pdt)) with d the duration of the
\* highest-index pulse whose apparition time is <= t; a pulse whose time
\* equals t counts as active.
C3_LatestPulseDuration ==
    (returned /\ C3_Inputs)
        => a = AFormula(model_attrs, model_attrs.a_scale,
                        pulse_parameters[LatestPulse(stim_prev, time)])

\* t is exactly the time of the second of three pulses of distinct durations
C3_Witness ==
    /\ returned
    /\ C3_Inputs
    /\ Len(stim_prev) = 3
    /\ stim_prev[2] = time
    /\ stim_prev[3] > time
    /\ pulse_parameters[1] # pulse_parameters[2]
    /\ a = AFormula(model_attrs, model_attrs.a_scale, pulse_parameters[2])

\* C4: with exactly one duration (intensity) and N > 1 stimulation times,
\* dynamics returns the derivative it returns for that value repeated N times.
C4_BroadcastEquivalence ==
    (returned /\ Len(pulse_parameters) = 1 /\ Len(stim_prev) > 1)
        => /\ call = "ding2007.dynamics"
              => /\ dxdt.raised = "none"
                 /\ dxdt = ding2007_dynamics(model_attrs, time, states,
                               [i \in 1..Len(stim_prev) |-> pulse_parameters[1]], stim_prev)
           /\ call = "hmed2018_with_fatigue.dynamics"
              => /\ dxdt.raised = "none"
                 /\ dxdt = hmed2018_dynamics(model_attrs, time, states,
                               [i \in 1..Len(stim_prev) |-> pulse_parameters[1]], stim_prev)

\* one duration with three stimulation times, the last two already passed
C4_Witness ==
    /\ returned
    /\ call = "ding2007.dynamics"
    /\ Len(pulse_parameters) = 1
    /\ Len(stim_prev) = 3
    /\ stim_prev[3] <= time
    /\ dxdt.raised = "none"
    /\ Len(dxdt.dxdt) = 2

\* _pulse_mode_settings has returned without raising
PulseModeSet ==
    /\ Executed("pulse_mode_settings")
    /\ raised # ValueError("Pulse mode not yet implemented")

\* the list the caller passed, which the method reads
BaseStimTime == fes_parameters["stim_time"].lst
PulseMode == fes_parameters["pulse_mode"].str

Abs(x) == IF x < 0 THEN -x ELSE x

\* x + step rounded to 3 decimals: the multiple of a millisecond nearest to it
\* (the base times explored are never half a millisecond off)
IsRounded(y, x) == y % Milli = 0 /\ 2 * Abs(y - x) < Milli

\* s holds every base time and, for each, a rounded time `step` later
HoldsShifted(s, base, step) ==
    \A i \in DOMAIN base : \E k \in DOMAIN s : IsRounded(s[k], base[i] + step)

\* every element of s is a base time or a rounded shifted time
OnlyShifted(s, base, stepSet) ==
    \A k \in DOMAIN s :
        \/ \E i \in DOMAIN base : s[k] = base[i]
        \/ \E i \in DOMAIN base, step \in stepSet : IsRounded(s[k], base[i] + step)

\* C5: _pulse_mode_settings leaves stim_time and n_stim unchanged in single
\* mode; in doublet (triplet) mode stim_time has length 2N (3N), holds every
\* base time t and t+0.005 (and t+0.01) rounded to 3 decimals, is sorted in
\* non-decreasing order, and n_stim is its length.
C5_PulseModeExpansion ==
    PulseModeSet =>
        /\ PulseMode = "single"
              => stim_time = BaseStimTime /\ n_stim = fes_parameters["n_stim"].num
        /\ PulseMode = "doublet"
              => /\ Len(stim_time) = 2 * Len(BaseStimTime)
                 /\ Range(BaseStimTime) \subseteq Range(stim_time)
                 /\ HoldsShifted(stim_time, BaseStimTime, DoubletStep)
                 /\ OnlyShifted(stim_time, BaseStimTime, {DoubletStep})
                 /\ IsSorted(stim_time)
                 /\ n_stim = Len(stim_time)
        /\ PulseMode = "triplet"
              => /\ Len(stim_time) = 3 * Len(BaseStimTime)
                 /\ Range(BaseStimTime) \subseteq Range(stim_time)
                 /\ HoldsShifted(stim_time, BaseStimTime, DoubletStep)
                 /\ HoldsShifted(stim_time, BaseStimTime, TripletStep)
                 /\ OnlyShifted(stim_time, BaseStimTime, {DoubletStep, TripletStep})
                 /\ IsSorted(stim_time)
                 /\ n_stim = Len(stim_time)

\* a triplet expansion of three base times, one of them not a whole
\* millisecond, with n_stim rewritten from the caller's 3 to 9
C5_Witness ==
    /\ PulseModeSet
    /\ PulseMode = "triplet"
    /\ Len(BaseStimTime) = 3
    /\ 600 \in Range(BaseStimTime)
    /\ 11000 \in Range(stim_time) \ Range(BaseStimTime)
    /\ n_stim = 9

\* C6 as stated: for every strictly ascending base list the doublet or
\* triplet expansion is strictly ascending, with no duplicate time.
C6_StrictlyAscendingAlways ==
    (PulseModeSet /\ PulseMode \in {"doublet", "triplet"} /\ IsStrictlyAscending(BaseStimTime))
        => IsStrictlyAscending(stim_time)

\* consecutive base times are at least `gap` apart
GapsAtLeast(base, gap) == \A i \in 1..(Len(base) - 1) : base[i + 1] - base[i] >= gap

\* C6 amended: the expansion is strictly ascending when consecutive base
\* times are at least 0.006 s apart (doublet) or 0.011 s apart (triplet), one
\* millisecond more than the largest step.
C6_StrictlyAscendingWithGaps ==
    /\ (PulseModeSet /\ PulseMode = "doublet"
            /\ GapsAtLeast(BaseStimTime, DoubletStep + Milli))
       => IsStrictlyAscending(stim_time)
    /\ (PulseModeSet /\ PulseMode = "triplet"
            /\ GapsAtLeast(BaseStimTime, TripletStep + Milli))
       => IsStrictlyAscending(stim_time)

\* a triplet expansion of base times 11 ms apart
C6_Witness ==
    /\ PulseModeSet
    /\ PulseMode = "triplet"
    /\ Len(BaseStimTime) >= 2
    /\ BaseStimTime[2] - BaseStimTime[1] = 11000
    /\ IsStrictlyAscending(stim_time)
    /\ Len(stim_time) = 3 * Len(BaseStimTime)

\* from_frequency_and_final_time was called with an int frequency, a bool
\* round_down and an int or float final_time
FinalTimeCallValid ==
    /\ entry = "from_frequency_and_final_time"
    /\ HasKey(fes_arg, "frequency") /\ fes_arg["frequency"].ty = "int"
    /\ HasKey(fes_arg, "round_down") /\ fes_arg["round_down"].ty = "bool"
    /\ HasKey(ivp_arg, "final_time") /\ ivp_arg["final_time"].ty \in {"int", "float"}

\* final_time * frequency as the fraction ProductNum / ProductDen
ProductNum == ivp_arg["final_time"].num * fes_arg["frequency"].num
ProductDen == IF ivp_arg["final_time"].ty = "float" THEN Centi ELSE 1
ProductWhole == ProductNum % ProductDen = 0
RoundDown == fes_arg["round_down"].num = 1
\* the product with its fractional part dropped
ProductTruncated ==
    IF ProductNum >= 0 THEN ProductNum \div ProductDen ELSE -((-ProductNum) \div ProductDen)

\* C7: from_frequency_and_final_time sets fes_parameters['n_stim'] to the
\* integer final_time * frequency when the product is whole, to the product
\* truncated to an integer when round_down is True, and otherwise raises the
\* stimulation count ValueError without constructing an IvpFes.
C7_StimulationCount ==
    (FinalTimeCallValid /\ Executed("from_frequency_and_final_time"))
        => /\ ProductWhole => fes_parameters["n_stim"] = PyInt(ProductNum \div ProductDen)
           /\ RoundDown => fes_parameters["n_stim"] = PyInt(ProductTruncated)
           /\ (~RoundDown /\ ~ProductWhole)
                 => /\ raised = StimulationCountError
                    /\ pc = "raised"
                    /\ ~Executed("fill_dicts")
                    /\ built = {}

\* 1.25 s at 30 Hz with round_down: 37.5 is truncated to 37
C7_Witness ==
    /\ FinalTimeCallValid
    /\ Executed("from_frequency_and_final_time")
    /\ RoundDown
    /\ ~ProductWhole
    /\ ProductNum = 3750
    /\ fes_parameters["n_stim"] = PyInt(37)

\* C8: from_frequency_and_final_time (int frequency, bool round_down, numeric
\* final_time, with a whole stimulation count or round_down) and
\* from_frequency_and_n_stim (int n_stim, int frequency other than 0)
\* construct an IvpFes without raising although the caller gives no
\* 'stim_time'.
C8_ClassMethodsConstruct ==
    /\ (/\ FinalTimeCallValid
        /\ RoundDown \/ ProductWhole
        /\ ivp_arg["final_time"].ty = "float" \/ int_is_integer
        /\ ~HasKey(fes_arg, "stim_time"))
          => pc # "raised"
    /\ (/\ entry = "from_frequency_and_n_stim"
        /\ HasKey(fes_arg, "n_stim") /\ fes_arg["n_stim"].ty = "int"
        /\ HasKey(fes_arg, "frequency") /\ fes_arg["frequency"].ty = "int"
        /\ fes_arg["frequency"].num # 0
        /\ ~HasKey(fes_arg, "stim_time"))
          => pc # "raised"

PulseModeError == ValueError("Pulse mode not yet implemented")

\* C9: construction with a pulse_mode string other than 'single', 'doublet'
\* or 'triplet' raises the pulse mode ValueError, before any parameter list,
\* dynamics declaration or OptimalControlProgram is built.
C9_UnknownPulseMode ==
    (HasKey(fes_arg, "pulse_mode") /\ fes_arg["pulse_mode"].ty = "str"
        /\ fes_arg["pulse_mode"].str \notin ValidPulseModes)
        => /\ built = {}
           /\ pc # "done"
           /\ Executed("pulse_mode_settings")
                 => /\ raised = PulseModeError
                    /\ pc = "raised"
                    /\ ~Executed("build_parameters")

\* 'Quadruplet' passes dictionaries_check and is refused by the mode step
C9_Witness ==
    /\ HasKey(fes_arg, "pulse_mode")
    /\ fes_arg["pulse_mode"] = PyStr("Quadruplet")
    /\ Executed("pulse_mode_settings")
    /\ raised = PulseModeError
    /\ built = {}

PulseDurationTypeError == TypeError("pulse_duration must be int, float or list type")
PulseIntensityTypeError == TypeError("pulse_intensity must be int, float or list type")

\* v is a bool, or is neither an int, a float nor a list
WrongPulseType(v) == v.ty = "bool" \/ v.ty \notin {"int", "float", "list"}

\* C10: construction raises the pulse_duration (pulse_intensity) TypeError
\* when the value is a bool or is neither int, float nor list, and the
\* rejection is decided before the minimum value check is evaluated.
C10_PulseTypeRejected ==
    /\ (/\ Executed("dictionaries_check")
        /\ IsPulseDurationModel(fes_parameters["model"])
        /\ IsInstanceInt(fes_parameters["n_stim"])
        /\ WrongPulseType(fes_parameters["pulse_duration"]))
       => /\ raised = PulseDurationTypeError
          /\ "min_pulse_duration_check" \notin Range(evaluated)
    /\ (/\ Executed("dictionaries_check")
        /\ IsPulseIntensityModel(fes_parameters["model"])
        /\ IsInstanceInt(fes_parameters["n_stim"])
        /\ WrongPulseType(fes_parameters["pulse_intensity"]))
       => /\ raised = PulseIntensityTypeError
          /\ "minimum_pulse_intensity" \notin Range(evaluated)

\* pulse_duration = True is refused although True >= pd0 holds
C10_Witness ==
    /\ raised = PulseDurationTypeError
    /\ fes_parameters["pulse_duration"] = PyBool(TRUE)
    /\ evaluated = <<"model", "n_stim", "pulse_duration_format">>

OdeSolverError == ValueError("ode_solver must be a OdeSolver type")
UseSxError == ValueError("use_sx must be a bool type")
NThreadsError == ValueError("n_thread must be a int type")

\* the values dictionaries_check reads, of the wrong type
OdeSolverWrong == ivp_parameters["ode_solver"].ty # "OdeSolver"
UseSxWrong == ivp_parameters["use_sx"].ty # "bool"
NThreadsWrong == ivp_parameters["n_threads"].ty \notin {"int", "bool"}

\* dictionaries_check ran and every check before those of the solver passed
SolverChecksReached ==
    /\ Executed("dictionaries_check")
    /\ raised.msg \notin {"model must be a FesModel type", "n_stim must be an int type",
                          "pulse_duration must be int, float or list type",
                          "Pulse duration must be greater than minimum pulse duration",
                          "pulse_intensity must be int, float or list type",
                          "Pulse intensity must be greater than minimum pulse intensity",
                          "pulse_mode must be a string type",
                          "n_shooting must be an int or a list type",
                          "final_time must be an int or float type",
                          "extend_last_phase_time must be an int or float type"}

\* C11: IvpFes construction raises ValueError 'ode_solver must be a OdeSolver
\* type' for an ode_solver that is no OdeSolver instance, 'use_sx must be a
\* bool type' for a use_sx that is no bool and 'n_thread must be a int type'
\* for an n_threads that is no int; they are tested in that order, so the
\* first failing one gives the message.
C11_SolverChecksInOrder ==
    SolverChecksReached
        => /\ OdeSolverWrong => raised = OdeSolverError
           /\ (~OdeSolverWrong /\ UseSxWrong) => raised = UseSxError
           /\ (~OdeSolverWrong /\ ~UseSxWrong /\ NThreadsWrong) => raised = NThreadsError
           /\ (~OdeSolverWrong /\ ~UseSxWrong /\ ~NThreadsWrong)
                 => raised \notin {OdeSolverError, UseSxError, NThreadsError}

\* all three settings are of the wrong type: the ode_solver message wins
C11_Witness ==
    /\ SolverChecksReached
    /\ OdeSolverWrong /\ UseSxWrong /\ NThreadsWrong
    /\ raised = OdeSolverError
    /\ pc = "raised"

(***************************************************************************)
(* IvpFes and OcpFes together: either entry point is called.               *)
(***************************************************************************)
ConfigInit == Init \/ OcpInit

ConfigNext == Next \/ OcpNext

SpecConfig == ConfigInit /\ [][ConfigNext]_vars

Last(s) == s[Len(s)]

\* dictionaries_check rejected the call; the check that raised is the last
\* one evaluated
IvpRejected == pc = "raised" /\ steps # <<>> /\ Last(steps) = "dictionaries_check"
\* _sanity_check rejected the call
OcpRejected == ocp_pc = "raised" /\ Last(ocp_built) = "_sanity_check"

\* the checks of dictionaries_check that test the type of a value, and
\* those that test its range
IvpTypeChecks ==
    {"model", "n_stim", "pulse_duration_format", "pulse_intensity_format", "pulse_mode",
     "n_shooting", "final_time", "extend_last_phase_time", "ode_solver", "use_sx", "n_threads"}
IvpRangeChecks == {"min_pulse_duration_check", "minimum_pulse_intensity"}

\* a fixed pulse value or a pair of bounds of another type than int, float
\* or list of int and float
WrongValueType(d) ==
    IF Truthy(d["fixed"])
    THEN ~(IsInstanceIntFloat(d["fixed"]) \/ (IsInstanceList(d["fixed"]) /\ AllNumbers(d["fixed"])))
    ELSE ~IsInstanceIntFloat(d["min"]) \/ ~IsInstanceIntFloat(d["max"])

\* the check of _sanity_check that raised met a value of the wrong type
OcpWrongType ==
    LET check == Last(ocp_evaluated)
    IN  CASE check = "n_shooting" -> ~IsInstanceInt(input_dict["n_shooting"])
          [] check = "final_time" -> ~IsInstanceIntFloat(input_dict["final_time"])
          [] check = "frequency" -> ~IsInstanceIntFloat(ocp_dicts.pulse_event["frequency"])
          [] check = "pulse_duration_value" -> WrongValueType(ocp_dicts.pulse_duration)
          [] check = "pulse_intensity_value" -> WrongValueType(ocp_dicts.pulse_intensity)
          [] check = "force_tracking" -> ~IsArrayList(ocp_dicts.objective["force_tracking"])
          [] check = "pulse_mode" -> ~IsInstanceStr(ocp_dicts.pulse_event["pulse_mode"])
          [] check \in {"model", "bimapping", "pulse_duration_bimapping",
                        "pulse_intensity_bimapping", "end_node_tracking", "custom",
                        "ode_solver", "use_sx", "n_threads"} -> TRUE
          [] OTHER -> FALSE

\* _sanity_check met a pulse mode that is a string, but not 'single'
OcpUnsupportedMode ==
    Last(ocp_evaluated) = "pulse_mode" /\ IsInstanceStr(ocp_dicts.pulse_event["pulse_mode"])

\* C12 as stated: in IvpFes.dictionaries_check and OcpFes._sanity_check
\* every rejection of a value of the wrong type is a TypeError and every
\* rejection of a value out of range or of mismatched length is a ValueError.
C12_TypeErrorAndValueError ==
    /\ IvpRejected =>
           raised.type = IF Last(evaluated) \in IvpTypeChecks THEN "TypeError" ELSE "ValueError"
    /\ OcpRejected /\ ~OcpUnsupportedMode =>
           ocp_raised.type = IF OcpWrongType THEN "TypeError" ELSE "ValueError"

\* C12 amended: dictionaries_check raises TypeError only for a pulse
\* duration or pulse intensity of the wrong type and ValueError for every
\* other rejection; _sanity_check raises NotImplementedError for a pulse mode
\* other than 'single' and for a duration or intensity bimapping that is
\* neither None nor a bool, TypeError for every other wrong type and for a
\* negative n_shooting or final_time, IndexError for a force_tracking list of
\* one array, and ValueError for every other rejection.
C12_ExceptionTypes ==
    /\ IvpRejected =>
           raised.type = IF Last(evaluated) \in {"pulse_duration_format", "pulse_intensity_format"}
                         THEN "TypeError" ELSE "ValueError"
    /\ OcpRejected =>
           ocp_raised.type =
               IF Last(ocp_evaluated) \in {"pulse_mode", "pulse_duration_bimapping",
                                           "pulse_intensity_bimapping"}
               THEN "NotImplementedError"
               ELSE IF OcpWrongType \/ Last(ocp_evaluated) \in {"n_shooting", "final_time"}
               THEN "TypeError"
               ELSE IF Last(ocp_evaluated) = "force_tracking"
                       /\ Len(ocp_dicts.objective["force_tracking"].lst) < 2
               THEN "IndexError"
               ELSE "ValueError"

\* dictionaries_check has rejected a use_sx that is not a bool
C12_Witness ==
    /\ IvpRejected
    /\ Last(evaluated) = "use_sx"
    /\ ~IsInstanceBool(ivp_parameters["use_sx"])
    /\ raised.type = "ValueError"

\* C13: every error of IvpFes.__init__ (dictionaries_check, the pulse mode,
\* the length of a pulse list) is raised before _declare_dynamics and
\* _prepare_fake_ocp, every error of prepare_ocp (_sanity_check,
\* _build_parameters) is raised before OptimalControlProgram is constructed,
\* and none is raised once the program object exists or during integrate().
C13_ErrorsBeforeConstruction ==
    /\ raised # NoExc =>
           /\ built \subseteq {"ParameterList", "InitialGuessList", "BoundsList"}
           /\ ~Executed("declare_dynamics") /\ ~Executed("prepare_fake_ocp")
           /\ ~Executed("integrate")
    /\ ocp_raised # NoExc => "OptimalControlProgram" \notin Range(ocp_built)
    /\ (ocp_raised # NoExc /\ Last(ocp_built) \in {"_sanity_check", "_build_parameters"}) =>
           Range(ocp_built) \subseteq {"_fill_dict", "_sanity_check", "_build_parameters"}
    /\ "OptimalControlProgram" \in built \cup Range(ocp_built) =>
           raised = NoExc /\ ocp_raised = NoExc

\* _build_parameters has refused a list of pulse values of the wrong length
C13_Witness ==
    /\ raised \in {PulseDurationLengthError, PulseIntensityLengthError}
    /\ Executed("build_parameters")
    /\ "DynamicsList" \notin built

\* model.pd0, or 0 when it is None
MinimumPulseDuration ==
    IF input_dict["model.pd0"] = PyNone THEN 0 ELSE input_dict["model.pd0"].num

\* the fixed pulse duration is a number, or a list holding a number, below
\* the minimum
FixedDurationBelow(d) ==
    \/ IsInstanceIntFloat(d["fixed"]) /\ d["fixed"].num < MinimumPulseDuration
    \/ /\ IsInstanceList(d["fixed"]) /\ AllNumbers(d["fixed"])
       /\ \E i \in DOMAIN d["fixed"].lst : d["fixed"].lst[i] < MinimumPulseDuration

\* no fixed duration, and a min bound below the minimum next to a max bound
MinDurationBelow(d) ==
    /\ d["fixed"] = PyNone
    /\ IsInstanceIntFloat(d["min"]) /\ IsInstanceIntFloat(d["max"])
    /\ d["min"].num < MinimumPulseDuration

\* the bounds are numbers or None, the bimapping a bool or None
DurationWellTyped(d) ==
    /\ \A k \in {"min", "max"} : d[k] = PyNone \/ IsInstanceIntFloat(d[k])
    /\ IsNoneOrBool(d["bimapping"])

\* C14: for a pulse-duration model, _sanity_check raises ValueError for every
\* fixed pulse duration (a scalar, or a list with such an element) and every
\* min bound below pd0 (0 when pd0 is None), so that no such configuration
\* reaches _build_parameters.
C14_LowDurationRejected ==
    (/\ "_sanity_check" \in Range(ocp_built)
     /\ IsPulseDurationModel(input_dict["model"])
     /\ "pulse_duration_set" \in Range(ocp_evaluated)
     /\ DurationWellTyped(ocp_dicts.pulse_duration)
     /\ FixedDurationBelow(ocp_dicts.pulse_duration) \/ MinDurationBelow(ocp_dicts.pulse_duration))
        => /\ ocp_raised.type = "ValueError"
           /\ "_build_parameters" \notin Range(ocp_built)

\* _sanity_check has tested the pulse mode: the model, n_shooting and
\* final_time passed
PulseModeTested == "pulse_mode" \in Range(ocp_evaluated)

\* the caller asks for a pulse_event bimapping and gives both bounds
EventBimappingWithBounds ==
    /\ ocp_dicts.pulse_event["bimapping"] = PyBool(TRUE)
    /\ IsInstanceIntFloat(ocp_dicts.pulse_event["min"])
    /\ IsInstanceIntFloat(ocp_dicts.pulse_event["max"])

\* C15: _sanity_check raises NotImplementedError for every pulse_mode other
\* than 'single', _build_parameters raises it whenever a pulse_event bimapping
\* is requested together with both bounds min and max, and in both cases no
\* OptimalControlProgram is constructed.
C15_UnsupportedRejected ==
    /\ (PulseModeTested /\ ocp_dicts.pulse_event["pulse_mode"] # PyStr("single")) =>
           /\ ocp_raised = PulseModeNotImplemented
           /\ Last(ocp_built) = "_sanity_check"
    /\ ("_build_parameters" \in Range(ocp_built) /\ EventBimappingWithBounds) =>
           /\ ocp_raised = BimappingNotImplemented
           /\ Last(ocp_built) = "_build_parameters"

\* the derivative function that stands at the place of each state
DerivativeOf(name) ==
    CASE name = "Cn" -> "cn_dot_fun"
      [] name = "F" -> "f_dot_fun"
      [] name = "A" -> "a_dot_fun"
      [] name = "Tau1" -> "tau1_dot_fun"
      [] name = "Km" -> "km_dot_fun"

MuscleNames == {"", "quadriceps"}

\* the model's dynamics has returned a derivative
Hmed2018Returned ==
    call = "hmed2018_with_fatigue.dynamics" /\ returned /\ dxdt.raised = "none"

\* C16: for the hmed2018 model with fatigue, name_dof, nb_state,
\* standard_rest_values() and the derivative dynamics returns all have 5
\* elements in the order Cn, F, A, Tau1, Km: the rest values are
\* [0, 0, a_rest, tau1_rest, km_rest], and dynamics reads states[0..4] as
\* cn, f, a, tau1, km and returns (cn_dot, f_dot, a_dot, tau1_dot, km_dot).
C16_FiveStatesInOrder ==
    Hmed2018Returned =>
        LET rest == hmed2018_standard_rest_values(model_attrs)
            d == dxdt.dxdt
        IN  /\ \A m \in MuscleNames :
                   hmed2018_name_dof(m, FALSE) = <<"Cn", "F", "A", "Tau1", "Km">>
            /\ hmed2018_nb_state = Len(hmed2018_name_dof("", FALSE))
            /\ Len(rest) = hmed2018_nb_state /\ Len(d) = hmed2018_nb_state
            /\ rest = <<0, 0, model_attrs.a_rest, model_attrs.tau1_rest, model_attrs.km_rest>>
            /\ \A j \in 1..Len(d) : d[j].fn = DerivativeOf(hmed2018_name_dof("", FALSE)[j])
            /\ d[1].args[1] = states[1] /\ d[1].args[2] = R0(states[5])
            /\ SubSeq(d[2].args, 1, 5) = states
            /\ d[3].args = <<states[3], states[2]>>
            /\ d[4].args = <<states[4], states[2]>>
            /\ d[5].args = <<states[5], states[2]>>

\* the dynamics has returned for a fatigued state, on an identified model
C16_Witness ==
    /\ Hmed2018Returned
    /\ model_attrs = IdentifiedAttrs
    /\ states[1] # 0 /\ states[2] # 0
    /\ Len(dxdt.dxdt) = hmed2018_nb_state

\* the model IvpFes has been built on
IvpModel == fes_parameters["model"]

\* C17: build_initial_guess_from_ocp creates exactly one state initial guess
\* per entry of model.name_dof, the j-th equal to standard_rest_values()[j],
\* so that the trajectory starts from rest, with F = 0.
C17_InitialGuessAtRest ==
    Executed("declare_dynamics") =>
        LET names == name_dof(IvpModel)
            rest == standard_rest_values(IvpModel, model_attrs)
        IN  /\ Len(x_init) = Len(names)
            /\ \A j \in 1..Len(names) :
                   x_init[j].key = names[j] /\ x_init[j].initial_guess = rest[j]
            /\ \A n \in Range(names) : Cardinality({j \in DOMAIN x_init : x_init[j].key = n}) = 1
            /\ \E j \in DOMAIN x_init : x_init[j].key = "F" /\ x_init[j].initial_guess = 0

\* IvpFes has been built on the hmed2018 model with fatigue
C17_Witness ==
    /\ pc = "done"
    /\ IvpModel = PyModel("hmed2018_with_fatigue_integrate")
    /\ Len(x_init) = hmed2018_nb_state
    /\ x_init[3] = [key |-> "A", initial_guess |-> model_attrs.a_rest]

\* what the caller passed to the k-th call
CallInputs(k) ==
    <<history[k].fn, history[k].time, history[k].states, history[k].impulse_time,
      history[k].stim_prev>>

Selectable(i) == i = 1 \/ (stim_prev[i] <= time /\ pulse_parameters[i] # 0)

\* the highest index of a pulse that can be selected
LatestSelectable ==
    CHOOSE i \in DOMAIN stim_prev :
        Selectable(i) /\ \A j \in DOMAIN stim_prev : Selectable(j) => j <= i

\* a_calculation has returned a value for as many durations as pulses
C19_Inputs ==
    /\ call = "a_calculation"
    /\ returned
    /\ Len(stim_prev) >= 1
    /\ Len(pulse_parameters) = Len(stim_prev)

\* C19: in a_calculation a pulse i > 0 that has appeared (t_stim_prev[i] <= t)
\* but whose duration is exactly zero does not become the selected pulse: the
\* selection made before it is carried forward.
C19_ZeroDurationNotSelected ==
    C19_Inputs =>
        a = AFormula(model_attrs, model_attrs.a_scale, pulse_parameters[LatestSelectable])

\* the last of three pulses has appeared with a duration of zero, and the
\* duration of the second one is the one used
C19_Witness ==
    /\ C19_Inputs
    /\ Len(stim_prev) = 3
    /\ stim_prev[2] <= time /\ stim_prev[3] <= time
    /\ pulse_parameters[3] = 0 /\ pulse_parameters[2] # 0
    /\ pulse_parameters[1] # pulse_parameters[2]
    /\ a = AFormula(model_attrs, model_attrs.a_scale, pulse_parameters[2])

\* _build_constraints has added the constraints of a call whose truncation
\* K is None or at least 1
C20_Inputs ==
    /\ "_build_constraints" \in Range(ocp_built)
    /\ constraints.raised = NoExc
    /\ input_dict["model._sum_stim_truncation"] # PyInt(0)

\* the pulses whose apparition time is not after the time of the node:
\* node i is at i * final_time / n_shooting
PulsesUpTo(node) ==
    {k \in DOMAIN input_dict["stim_time"].lst :
        input_dict["stim_time"].lst[k] * input_dict["n_shooting"].num
            <= node * input_dict["final_time"].num}

\* the most recent min(K, n) of the first n pulses
MostRecent(n) ==
    LET K == input_dict["model._sum_stim_truncation"]
        keep == IF K = PyNone \/ K.num > n THEN n ELSE K.num
    IN  SubSeq(input_dict["stim_time"].lst, n - keep + 1, n)

\* C20: with K = model._sum_stim_truncation (None for no truncation) the
\* cn_sum constraint of node i receives stim_time[index_inf:index_sup] equal
\* to the most recent min(K, n_i) pulses among the n_i pulses whose
\* apparition time is not after the time of node i.
C20_MostRecentPulses ==
    C20_Inputs =>
        \A c \in DOMAIN constraints.cn_sum :
            constraints.cn_sum[c].stim_time
                = MostRecent(Cardinality(PulsesUpTo(constraints.cn_sum[c].node)))

RECURSIVE Gcd(_, _)
Gcd(m, n) == IF n = 0 THEN m ELSE Gcd(n, m % n)

\* a fraction in lowest terms
Reduced(x) ==
    LET g == Gcd(IF x.num < 0 THEN -x.num ELSE x.num, x.den)
    IN  Rat(x.num \div g, x.den \div g)

\* x_dot = -(x - x_rest) / tau_fat + alpha * f, with alpha = alpha.num / alpha.den
IsRelaxationPlusForcing(x_dot, x, x_rest, alpha, f) ==
    /\ x_dot.den > 0
    /\ Reduced(x_dot)
           = Reduced(Rat(alpha.num * f * TauFat - (x - x_rest) * alpha.den,
                         TauFat * alpha.den))

AtRest ==
    /\ states[2] = 0
    /\ <<states[3], states[4], states[5]>>
           = <<model_attrs.a_rest, model_attrs.tau1_rest, model_attrs.km_rest>>

\* C21: in the fatigue variant each fatigue derivative is the linear
\* relaxation plus forcing with no clamping:
\* a_dot = -(a - a_rest)/tau_fat + alpha_a*f,
\* tau1_dot = -(tau1 - tau1_rest)/tau_fat + alpha_tau1*f,
\* km_dot = -(km - km_rest)/tau_fat + alpha_km*f; all three are exactly 0
\* at the rest state with f = 0.
C21_FatigueDerivativesLinear ==
    Hmed2018Returned =>
        LET d == dxdt.dxdt
        IN  /\ IsRelaxationPlusForcing(d[3].value, states[3], model_attrs.a_rest, AlphaA, states[2])
            /\ IsRelaxationPlusForcing(d[4].value, states[4], model_attrs.tau1_rest, AlphaTau1, states[2])
            /\ IsRelaxationPlusForcing(d[5].value, states[5], model_attrs.km_rest, AlphaKm, states[2])
            /\ AtRest => \A j \in 3..5 : d[j].value.num = 0

\* the derivative of a state away from rest has been returned, with a
\* negative fatigue derivative
C21_Witness ==
    /\ Hmed2018Returned
    /\ ~AtRest
    /\ states[2] # 0
    /\ dxdt.dxdt[3].value.num < 0

\* the derivative at the rest state has been returned
C21_WitnessRest == Hmed2018Returned /\ AtRest

\* the value the constraint functions return for the controller's phase
FirstMinusCurrent(fn) ==
    LET v == IF fn = "equal_to_first_pulse_interval_time" THEN controller.phase_tf
             ELSE IF fn = "equal_to_first_pulse_duration" THEN controller.pulse_duration
             ELSE controller.pulse_intensity
    IN  v[1] - v[controller.phase_idx + 1]

\* C22: each bimapping constraint function of CustomConstraint raises
\* RuntimeError('There is only one phase, the bimapping constraint is not
\* possible') when controller.ocp.n_phases <= 1, and returns a difference
\* value only when there is more than one phase.
C22_OnePhaseRaises ==
    penalty # NotCalled =>
        IF controller.n_phases <= 1
        THEN penalty.raised = RuntimeError(OnlyOnePhase)
        ELSE penalty.raised = NoExc /\ penalty.value = FirstMinusCurrent(penalty.fn)

\* the coefficient a flag selects
Selected(flag, fn, muscle_name) ==
    IF flag = PyBool(TRUE) THEN Coefficient(fn, muscle_name) ELSE One

\* C23: in FesMskModel.muscles_joint_torque the force-length coefficient
\* passed to each muscle's dynamics is the computed
\* muscle_force_length_coefficient exactly when
\* activate_force_length_relationship is True and 1 otherwise, and the
\* force-velocity coefficient is the computed one exactly when
\* activate_force_velocity_relationship is True and 1 otherwise.
C23_FlagsActIndependently ==
    msk_pc = "evaluated" =>
        \A i \in DOMAIN muscle_calls :
            LET c == muscle_calls[i]
            IN  /\ c.force_length_relationship
                      = Selected(msk_args.activate_force_length_relationship,
                                 "muscle_force_length_coefficient", c.fes_model.muscle_name)
                /\ c.force_velocity_relationship
                      = Selected(msk_args.activate_force_velocity_relationship,
                                 "muscle_force_velocity_coefficient", c.fes_model.muscle_name)

\* muscles_model is a list made only of FesModel instances
ListOfFesModels(m) ==
    IsInstanceList(m) /\ \A i \in DOMAIN m.items : IsInstanceFesModel(m.items[i])

\* C24: FesMskModel._model_sanity raises TypeError whenever muscles_model
\* is not a list or is a list containing an element that is not a FesModel
\* instance, and when either flag is not a bool; a list made only of
\* FesModel instances with bool flags is accepted.
C24_ModelSanityRejects ==
    msk_pc \in {"built", "raised"} /\ muscle_calls = <<>> /\ msk_raised.type # "AttributeError" =>
        IF /\ ListOfFesModels(msk_args.muscles_model)
           /\ IsInstanceBool(msk_args.activate_force_length_relationship)
           /\ IsInstanceBool(msk_args.activate_force_velocity_relationship)
        THEN msk_pc = "built"
        ELSE msk_raised.type = "TypeError"

\* the attributes the round trip is to keep
RoundTripAttrs == {"a_scale", "pd0", "pdt", "tauc", "tau1_rest", "km_rest", "tau2"}

\* C25: for a DingModelPulseDurationFrequency whose parameters were changed
\* through set_a_scale, set_pd0, set_pdt, calling cls(**kwargs) on the pair
\* serialize() returned yields a model with the same a_scale, pd0, pdt,
\* tauc, tau1_rest, km_rest and tau2 as the serialized one.
C25_SerializeRoundTrip ==
    rebuilt # <<>> => \A k \in RoundTripAttrs : rebuilt[k] = model_attrs[k]

\* a_calculation has returned a value for an ascending list of pulse times
\* and as many durations
C26_Inputs ==
    /\ call = "a_calculation"
    /\ returned
    /\ Len(stim_prev) >= 1
    /\ IsSorted(stim_prev)
    /\ Len(pulse_parameters) = Len(stim_prev)

\* C26: a_calculation never computes A from the duration of a pulse whose
\* apparition time is strictly greater than the evaluation time t: for
\* every t and every pulse list, the selected duration belongs to a pulse i
\* with t_stim_prev[i] <= t, including when t is earlier than the first
\* pulse.
C26_NoFuturePulse ==
    C26_Inputs =>
        \E i \in DOMAIN stim_prev :
            /\ stim_prev[i] <= time
            /\ a = AFormula(model_attrs, model_attrs.a_scale, pulse_parameters[i])

\* _build_constraints has added the cn_sum constraints
ConstraintsAdded ==
    /\ "_build_constraints" \in Range(ocp_built)
    /\ constraints.raised = NoExc
    /\ constraints.cn_sum # <<>>

\* max_stim_to_keep of the call
MaxStimToKeep ==
    IF Truthy(input_dict["model._sum_stim_truncation"])
    THEN input_dict["model._sum_stim_truncation"].num
    ELSE MaxStimToKeepDefault

\* C27: at every shooting node of OcpFes._build_constraints,
\* 0 <= index_inf <= index_sup <= len(stim_time),
\* index_sup - index_inf <= max_stim_to_keep, and the stim_index list passed
\* to cn_sum equals [index_inf, ..., index_sup - 1], so that it has the
\* length of the stim_time slice passed alongside it.
C27_WindowInvariant ==
    ConstraintsAdded =>
        \A c \in DOMAIN constraints.cn_sum :
            LET k == constraints.cn_sum[c]
            IN  /\ 0 <= k.index_inf
                /\ k.index_inf <= k.index_sup
                /\ k.index_sup <= Len(input_dict["stim_time"].lst)
                /\ k.index_sup - k.index_inf <= MaxStimToKeep
                /\ k.stim_index = [j \in 1..(k.index_sup - k.index_inf) |-> k.index_inf + j - 1]
                /\ Len(k.stim_index) = Len(k.stim_time)

\* a truncation has moved index_inf off the first pulse
C27_Witness ==
    /\ ConstraintsAdded
    /\ \E c \in DOMAIN constraints.cn_sum :
           /\ constraints.cn_sum[c].index_inf > 0
           /\ constraints.cn_sum[c].index_sup = Len(input_dict["stim_time"].lst)

\* _build_constraints has added the a_calculation constraints
ACalculationAdded ==
    /\ "_build_constraints" \in Range(ocp_built)
    /\ constraints.raised = NoExc
    /\ constraints.a_calculation # <<>>

\* C28: for a pulse-duration model the last_stim_index passed to the
\* a_calculation constraint at every node is a valid pulse index
\* (0 <= last_stim_index < len(stim_time)) and, once the first pulse has
\* occurred, is the index of the most recent pulse whose apparition time is
\* not after the node time, for any ascending stim_time within
\* [0, final_time], a first pulse later than t = 0 included.
C28_LastStimIndex ==
    ACalculationAdded =>
        \A c \in DOMAIN constraints.a_calculation :
            LET k == constraints.a_calculation[c]
                n == Cardinality(PulsesUpTo(k.node))
            IN  /\ 0 <= k.last_stim_index
                /\ k.last_stim_index < Len(input_dict["stim_time"].lst)
                /\ n >= 1 => k.last_stim_index = n - 1

\* from_frequency_and_final_time itself ended the call with ValueError
FinalTimeCallRejected ==
    /\ entry = "from_frequency_and_final_time"
    /\ steps = <<"from_frequency_and_final_time">>
    /\ pc = "raised"
    /\ raised.type = "ValueError"

\* C29: when IvpFes.from_frequency_and_final_time rejects its input with
\* ValueError (frequency not int, round_down not bool, final_time not
\* numeric, or a non-integer stimulation count with round_down False), the
\* fes_parameters and ivp_parameters dictionaries of the caller are left
\* as they were before the call.
C29_RejectedCallLeavesDicts ==
    FinalTimeCallRejected =>
        /\ fes_parameters = fes_arg
        /\ ivp_parameters = ivp_arg

\* the entries of a list that satisfy keep, in the order of the list
RECURSIVE Filtered(_, _, _)
Filtered(l, keep(_), j) ==
    IF j > Len(l) THEN <<>>
    ELSE (IF keep(l[j]) THEN <<l[j]>> ELSE <<>>) \o Filtered(l, keep, j + 1)

\* a pulse-duration parameter of the muscle asked for, or of any muscle when
\* no name is given
IsAskedFor(parameter) ==
    /\ parameter.kind = "pulse_duration"
    /\ muscle_arg # <<>> => parameter.muscle = muscle_arg

\* C30: get_pulse_duration_parameters called with a muscle_name returns, in
\* parameter order, exactly the entries of `parameters` that are
\* pulse-duration parameters of that muscle and none of another muscle, for
\* any distinct muscle names, names where one is a prefix of another
\* included; called without muscle_name it returns exactly the
\* pulse-duration parameters.
C30_ParametersOfTheMuscle ==
    pulse_duration_parameters.returned =>
        pulse_duration_parameters.list = Filtered(nlp_parameters, IsAskedFor, 1)

====
